---------------------------- MODULE Spec2Model ----------------------------
(***************************************************************************)
(* A model of gtfs_stats.py: the retry decorator around s3_download, the   *)
(* scheduler (get_dates_without_output, get_forward_fill_dict,             *)
(* get_valid_file_dates_dict) and the batch run (batch_stats_s3,           *)
(* handle_gtfs_file, handle_gtfs_date, get_gtfs_file).                     *)
(*                                                                         *)
(* Calendar dates are day numbers (0 is the first day of the modelled      *)
(* period); strftime('%Y-%m-%d') of a date is its day number and of a      *)
(* missing timestamp is NaT.  A file name "<date_str>.<ext>" is the pair   *)
(* <<date_str, ext>>.                                                      *)
(***************************************************************************)
EXTENDS Integers, Sequences, FiniteSets, TLC

VARIABLES
    \* ---- retry(delays, exception)(func): the frame of one wrapped call
    r_pc,           \* "idle", "try", "returned", "raised"
    r_delays,       \* the decorator's delays tuple
    r_i,            \* position in itertools.chain(delays, [None]), from 1
    problems,       \* the wrapped call's problems list
    r_exc,          \* the exception the wrapped call raised, or NoExc
    r_log,          \* what the wrapped call did, in order: calls, reports, sleeps
    \* ---- the world of a batch run
    bucket,         \* S3 bucket: the set of object keys
    gtfs_folder,    \* local feeds folder: file name -> "good" or "bad"
    output_folder,  \* output folder: <<date_str, kind>> -> pickled content
    forward_fill,   \* batch_stats_s3(forward_fill=...)
    future_days,    \* get_forward_fill_dict(future_days=...)
    delete_downloaded_gtfs_zips,
    archive,        \* day intervals <<lo, hi>> whose output files are archived
    \* ---- batch_stats_s3 / handle_gtfs_file / handle_gtfs_date frames
    pc,             \* where the batch run is
    ffill_dict,     \* get_valid_file_dates_dict: the forward fill dictionary
    file_dates_dict,\* the insertion-ordered dict file -> dates, as a sequence
    file_i,         \* position in non_empty_file_dates
    date_i,         \* position in stats_dates
    downloaded,     \* handle_gtfs_file's local
    d_downloaded,   \* handle_gtfs_date's local
    ts,             \* handle_gtfs_date's trip stats table
    bad_zips,       \* BadZipFile count of the current handle_gtfs_date call
    run_failed,     \* the run reached the except clause of batch_stats_s3
    \* ---- history of the current run
    runs,           \* batch runs started so far
    start_output,   \* output_folder as the current run found it
    start_gtfs,     \* gtfs_folder as the current run found it
    log,            \* what the run did, in order
    \* ---- compute_trip_stats_partridge and compute_route_stats_base_partridge
    feed,           \* the partridge feed: its tables, and the zones table
    merged,         \* compute_trip_stats_partridge's f: the merged, sorted rows
    h,              \* compute_trip_stats_partridge's h: one row per trip
    group,          \* compute_route_stats's group: the trip stats of one route
    route_d         \* compute_route_stats's d: the stats of the route

retry_vars == <<r_pc, r_delays, r_i, problems, r_exc, r_log>>
world_vars == <<bucket, gtfs_folder, output_folder, forward_fill, future_days,
                delete_downloaded_gtfs_zips, archive>>
frame_vars == <<pc, ffill_dict, file_dates_dict, file_i, date_i, downloaded,
                d_downloaded, ts, bad_zips, run_failed>>
hist_vars  == <<runs, start_output, start_gtfs, log>>
stats_vars == <<feed, merged, h, group, route_d>>
vars == <<retry_vars, world_vars, frame_vars, hist_vars, stats_vars>>

-----------------------------------------------------------------------------
(* Generic helpers *)

Range(s) == {s[i] : i \in 1..Len(s)}

RECURSIVE SetToSortedSeq(_)
\* the elements of a finite set of integers, ascending
SetToSortedSeq(S) ==
    IF S = {} THEN <<>>
    ELSE LET m == CHOOSE x \in S : \A y \in S : x <= y
         IN  <<m>> \o SetToSortedSeq(S \ {m})

SetMin(S) == CHOOSE x \in S : \A y \in S : x <= y
SetMax(S) == CHOOSE x \in S : \A y \in S : x >= y

-----------------------------------------------------------------------------
(* The retry decorator *)

\* retry(delays=(0, 1, 5, 30, 180, 600, 3600), ...)
DEFAULT_DELAYS == <<0, 1, 5, 30, 180, 600, 3600>>

NoExc == "none"
\* an except clause that catches whatever func raises
CatchesEverything == {"E1", "E2", "Fatal"}
\* exceptions that are instances of the decorator's `exception` class
Retryable == {"E1", "E2"}
\* an exception that is not (with exception=Exception: a BaseException)
NonRetryable == {"Fatal"}
\* the values func can return
Results == {"ok", "also ok"}
\* what one call of func can do
Outcomes == Results \cup Retryable \cup NonRetryable

NoDelay == -1
\* func was called and raised `problem` (NoExc: it returned)
CallEv(problem) == [ev |-> "call", problem |-> problem, delay |-> NoDelay, list |-> <<>>]
\* func was called and returned `result`
CallReturnedEv(result) ==
    [ev |-> "call", problem |-> NoExc, delay |-> NoDelay, list |-> <<result>>]
\* return func(*args, **kwargs): the wrapped call returns `result`
ReturnEv(result) ==
    [ev |-> "return", problem |-> NoExc, delay |-> NoDelay, list |-> <<result>>]
ReportFailedEv(problem, delay) ==
    [ev |-> "report failed", problem |-> problem, delay |-> delay, list |-> <<>>]
ReportDefinitelyEv(list) ==
    [ev |-> "report definitely", problem |-> NoExc, delay |-> NoDelay, list |-> list]
SleepEv(delay) ==
    [ev |-> "sleep", problem |-> NoExc, delay |-> delay, list |-> <<>>]

\* wrapped(*args, **kwargs) is entered: problems = [], the loop starts
RetryEnter(delays) ==
    /\ r_pc' = "try"
    /\ r_delays' = delays
    /\ r_i' = 1
    /\ problems' = <<>>
    /\ r_exc' = NoExc
    /\ r_log' = <<>>

\* no wrapped call is in progress
RetryLeave ==
    /\ r_pc' = "idle"
    /\ r_delays' = DEFAULT_DELAYS
    /\ r_i' = 1
    /\ problems' = <<>>
    /\ r_exc' = NoExc
    /\ r_log' = <<>>

\* the delay of the current iteration is None
LastIteration == r_i = Len(r_delays) + 1

\* a wrapper whose last report names the last problem alone
ReportsLastProblemOnly(problem, all) ==
    IF LastIteration THEN <<ReportDefinitelyEv(<<problem>>)>>
    ELSE <<ReportFailedEv(problem, r_delays[r_i])>>

\* a wrapper that reports nothing before it gives up
ReportsAtTheEndOnly(problem, all) ==
    IF LastIteration THEN <<ReportDefinitelyEv(all)>> ELSE <<>>

\* the calls of report(...) in the except clause: problems is `all`, the
\* exception caught is `problem`
Reports(problem, all) ==
    IF LastIteration THEN <<ReportDefinitelyEv(all)>>
    ELSE <<ReportFailedEv(problem, r_delays[r_i])>>

\* a wrapper that sleeps for the first delay every time
SleepsFirstDelay == IF LastIteration THEN <<>> ELSE <<SleepEv(r_delays[1])>>

\* what the except clause does after the report: raise, or time.sleep(delay)
AfterReport == IF LastIteration THEN <<>> ELSE <<SleepEv(r_delays[r_i])>>

\* one iteration of the loop: try func; except exception: record the problem,
\* report, and raise or sleep
RetryAttempt(outcome) ==
    /\ r_pc = "try"
    /\ UNCHANGED r_delays
    /\ IF outcome \in Results
       THEN /\ r_pc' = "returned"
            /\ r_log' = r_log \o <<CallReturnedEv(outcome), ReturnEv(outcome)>>
            /\ UNCHANGED <<problems, r_exc, r_i>>
       ELSE IF outcome \notin Retryable
       THEN /\ r_pc' = "raised"
            /\ r_exc' = outcome
            /\ r_log' = Append(r_log, CallEv(outcome))
            /\ UNCHANGED <<problems, r_i>>
       ELSE /\ problems' = Append(problems, outcome)
            /\ r_log' = r_log \o <<CallEv(outcome)>> \o Reports(outcome, problems')
                               \o AfterReport
            /\ r_pc' = IF LastIteration THEN "raised" ELSE "try"
            /\ r_exc' = IF LastIteration THEN outcome ELSE NoExc
            /\ r_i' = IF LastIteration THEN r_i ELSE r_i + 1

-----------------------------------------------------------------------------
(* File names, dates and the two folders *)

\* strftime of a missing timestamp (pd.NaT)
NaT == -1

\* date_str + '.zip'
ZipName(date_str) == <<date_str, "zip">>

\* parse_date(file_name)[1] == file_name.split('.')[0]
parse_date(file_name) == file_name[1]

\* output_folder + date_str + '_trip_stats.pkl.gz'
trip_stats_output_path(date_str) == <<date_str, "trip_stats">>
\* output_folder + date_str + '_route_stats.pkl.gz'
route_stats_output_path(date_str) == <<date_str, "route_stats">>

\* The days whose output files the model keeps in output_folder.  The output
\* files of the other days of the intervals in `archive` are the archive: both
\* files of such a day are there when a run starts, so no run schedules, reads
\* or writes them (ArchiveUntouched).
Watched == {0, 1, 60, 61}
LastDay == 122
ArchiveDays == {d \in 0..LastDay : d \notin Watched /\ \E iv \in archive : iv[1] <= d /\ d <= iv[2]}
ArchiveFiles == {<<d, kind>> : d \in ArchiveDays, kind \in {"trip_stats", "route_stats"}}

\* os.path.exists(path) in a folder held as a function from names
Exists(folder, name) == name \in DOMAIN folder

\* writing a file: creates it or replaces its content
WriteFile(folder, name, content) ==
    [n \in (DOMAIN folder) \cup {name} |-> IF n = name THEN content ELSE folder[n]]

\* os.remove(path)
RemoveFile(folder, name) == [n \in (DOMAIN folder) \ {name} |-> folder[n]]

\* a file of the output folder whose name OUTPUT_FILE_NAME_RE does not match
StrayName == <<NaT, "stray">>

\* _get_existing_output_files raises: re.match(...) is None for a file of the
\* folder, and None has no groups()
ListingRaises(folder) == \E n \in DOMAIN folder : n = StrayName

\* _get_existing_output_files(output_folder): the (date_str, kind) pairs of the
\* files in the folder (used for membership only)
get_existing_output_files(folder) == DOMAIN folder \cup ArchiveFiles

\* get_bucket_valid_files(bucket_objects): the keys that match
\* BUCKET_VALID_FILES_RE, in the listing's (ascending key) order.  The
\* pattern is a setting of gtfs_stats_conf; it is taken to match the keys
\* `YYYY-mm-dd.zip`, the format parse_date and batch_stats_s3 document.
get_bucket_valid_files(bucket_objects) ==
    LET days == {k[1] : k \in {o \in bucket_objects : o[2] = "zip" /\ o[1] >= 0}}
        sorted == SetToSortedSeq(days)
    IN  [i \in 1..Len(sorted) |-> ZipName(sorted[i])]

-----------------------------------------------------------------------------
(* The scheduler *)

\* a scheduler that forgets the existing output
FilesWithOutputForgotten(existing_output_files) == {}

\* a scheduler that takes any output file of a date for its route stats
FilesWithAnyOutput(existing_output_files) ==
    {ZipName(g[1]) : g \in existing_output_files}

\* [g[0] + '.zip' for g in existing_output_files if g[1] == 'route_stats']
FilesWithOutput(existing_output_files) ==
    {ZipName(g[1]) : g \in {e \in existing_output_files : e[2] = "route_stats"}}

\* a filter that keeps the dates that have output and drops the others
DatesIn(valid_files, done) ==
    LET kept == SelectSeq(valid_files, LAMBDA file : file \in done)
    IN  [i \in 1..Len(kept) |-> parse_date(kept[i])]

\* [parse_date(file)[1] for file in valid_files if file not in done]
DatesNotIn(valid_files, done) ==
    LET kept == SelectSeq(valid_files, LAMBDA file : file \notin done)
    IN  [i \in 1..Len(kept) |-> parse_date(kept[i])]

get_dates_without_output(valid_files, existing_output_files) ==
    DatesNotIn(valid_files, FilesWithOutput(existing_output_files))

\* date_df.fillna(method='ffill', limit=59)
FFILL_LIMIT == 59

\* a fill that stops one day early
MayFillOneShort(last, filled) == last # NaT /\ filled < FFILL_LIMIT - 1

\* fillna's test: a missing value is filled while fewer than `limit`
\* consecutive missing values have been filled since the last valid one
MayFill(last, filled) == last # NaT /\ filled < FFILL_LIMIT

\* the value fillna leaves at one day, with the last valid value and the
\* number of consecutive fills made from it after that day
FillDay(day, existing, last, filled) ==
    IF day \in existing
    THEN [values |-> <<day>>, last |-> day, filled |-> 0]
    ELSE IF MayFill(last, filled)
         THEN [values |-> <<last>>, last |-> last, filled |-> filled + 1]
         ELSE [values |-> <<NaT>>, last |-> last, filled |-> filled]

RECURSIVE FillForward(_, _, _, _, _)
\* The series date_df over the days lo..hi after the forward fill, one day
\* after the other: `existing` are the days that hold a value of their own,
\* `last` is the last valid value before lo and `filled` the number of
\* consecutive fills made from it.  (The pass over lo..hi is the pass over the
\* first half followed by the pass over the second half.)
FillForward(lo, hi, existing, last, filled) ==
    IF lo > hi THEN [values |-> <<>>, last |-> last, filled |-> filled]
    ELSE IF lo = hi THEN FillDay(lo, existing, last, filled)
    ELSE LET mid == (lo + hi) \div 2
             L == FillForward(lo, mid, existing, last, filled)
             R == FillForward(mid + 1, hi, existing, L.last, L.filled)
         IN  [values |-> L.values \o R.values, last |-> R.last, filled |-> R.filled]

\* an insertion-ordered dict of lists is a sequence of <<key, list>> pairs
DictKeys(dict) == {dict[i][1] : i \in 1..Len(dict)}
DictGet(dict, key) ==
    IF key \in DictKeys(dict)
    THEN dict[CHOOSE i \in 1..Len(dict) : dict[i][1] = key][2]
    ELSE <<>>

\* dict[key].append(value) on a defaultdict(list)
DictAppend(dict, key, value) ==
    IF key \in DictKeys(dict)
    THEN [i \in 1..Len(dict) |->
            IF dict[i][1] = key THEN <<key, Append(dict[i][2], value)>> ELSE dict[i]]
    ELSE Append(dict, <<key, <<value>> >>)

\* for file_date, stats_date in zip(values, index): ffill[file_date + '.zip'].append(stats_date)
\* where index is the run of days starting at `first`: the keys come in the
\* order of their first day, each with its days in ascending order
ZipIntoDict(values, first) ==
    LET n == Len(values)
        heads == {i \in 1..n : \A j \in 1..(i - 1) : values[j] # values[i]}
        order == SetToSortedSeq(heads)
        days == [i \in 1..n |-> first + i - 1]
        DaysOf(v) == SelectSeq(days, LAMBDA d : values[d - first + 1] = v)
    IN  [k \in 1..Len(order) |-> <<ZipName(values[order[k]]), DaysOf(values[order[k]])>>]

\* get_forward_fill_dict(valid_files, future_days)
get_forward_fill_dict(valid_files, fdays) ==
    LET existing_dates == {parse_date(valid_files[i]) : i \in 1..Len(valid_files)}
        first == SetMin(existing_dates)
        last  == SetMax(existing_dates) + fdays
        date_df == FillForward(first, last, existing_dates, NaT, 0)
    IN  ZipIntoDict(date_df.values, first)

\* get_forward_fill_dict of no file raises: existing_dates.min() of an empty
\* index is NaT, and pd.DatetimeIndex(start=NaT, end=NaT, freq='D') is a
\* ValueError (neither start nor end can be NaT)
FillRaises(valid_files) == valid_files = <<>>

\* [date_str + '.zip' for date_str in dates]
ZipNames(dates) == [i \in 1..Len(dates) |-> ZipName(dates[i])]

\* the forward_fill branch: files_for_stats[file] = get_dates_without_output(...)
\* for every file of the forward fill dictionary, in its order
FilesForStatsFill(ffill, existing_output_files) ==
    [i \in 1..Len(ffill) |->
        <<ffill[i][1],
          get_dates_without_output(ZipNames(ffill[i][2]), existing_output_files)>>]

RECURSIVE FilesForStatsDirect(_, _)
\* the other branch: for date in dates: files_for_stats[date + '.zip'].append(date)
FilesForStatsDirect(dates, dict) ==
    IF dates = <<>> THEN dict
    ELSE FilesForStatsDirect(Tail(dates), DictAppend(dict, ZipName(Head(dates)), Head(dates)))

\* get_valid_file_dates_dict(bucket_objects, existing_output_files, logger, forward_fill)
get_valid_file_dates_dict(bucket_objects, existing_output_files, fill, fdays) ==
    IF fill
    THEN FilesForStatsFill(
            get_forward_fill_dict(get_bucket_valid_files(bucket_objects), fdays),
            existing_output_files)
    ELSE FilesForStatsDirect(
            get_dates_without_output(get_bucket_valid_files(bucket_objects),
                                     existing_output_files), <<>>)

\* {key: value for key, value in file_dates_dict.items() if len(value) > 0}
non_empty_file_dates(dict) ==
    LET keep == {i \in 1..Len(dict) : Len(dict[i][2]) > 0}
        idx  == SetToSortedSeq(keep)
    IN  [j \in 1..Len(idx) |-> dict[idx[j]]]
-----------------------------------------------------------------------------
(* The tables and the log of a run *)

NoTable == [table |-> "none", file |-> ZipName(NaT), date |-> NaT,
            written_in |-> 0, of |-> <<>>]

\* compute_trip_stats_partridge(get_partridge_feed_by_date(gtfs_folder + file, date), zones)
\* with ts['date'] = date_str, as pickled by the run `run`
compute_trip_stats(file, date_str, run) ==
    [table |-> "trip_stats", file |-> file, date |-> date_str,
     written_in |-> run, of |-> <<>>]

\* compute_route_stats_base_partridge(ts) with rs['date'] = date_str
compute_route_stats(trip_stats, date_str, run) ==
    [table |-> "route_stats", file |-> trip_stats.file, date |-> date_str,
     written_in |-> run, of |-> <<trip_stats>>]

Ev(op, file, date_str) == [op |-> op, file |-> file, date |-> date_str]

-----------------------------------------------------------------------------
(* The batch run *)

\* batch runs of one behaviour
MaxRuns == 2

\* the files the run iterates over, and the current one with its dates
RunFiles == non_empty_file_dates(file_dates_dict)
CurFile  == RunFiles[file_i][1]
CurDates == RunFiles[file_i][2]
\* a loop over stats_dates that runs from the last date to the first
CurDateBackwards == CurDates[Len(CurDates) + 1 - date_i]
\* for date_str in stats_dates
CurDate == CurDates[date_i]

\* batch_stats_s3 up to the loop over the files: list the output folder and
\* the bucket, build file_dates_dict; an exception of the listing or of the
\* scheduler goes to the except clause
StartRun ==
    /\ pc \in {"idle", "done"}
    /\ runs < MaxRuns
    /\ runs' = runs + 1
    /\ start_output' = output_folder
    /\ start_gtfs' = gtfs_folder
    /\ log' = <<>>
    /\ run_failed' = FALSE
    /\ IF \/ ListingRaises(output_folder)
          \/ forward_fill /\ FillRaises(get_bucket_valid_files(bucket))
       THEN /\ ffill_dict' = <<>>
            /\ file_dates_dict' = <<>>
            /\ pc' = "except"
       ELSE /\ ffill_dict' = IF forward_fill
                             THEN get_forward_fill_dict(get_bucket_valid_files(bucket),
                                                        future_days)
                             ELSE <<>>
            /\ file_dates_dict' = get_valid_file_dates_dict(
                                      bucket, get_existing_output_files(output_folder),
                                      forward_fill, future_days)
            /\ pc' = IF non_empty_file_dates(file_dates_dict') = <<>>
                     THEN "finish" ELSE "file"
    /\ file_i' = 1
    /\ date_i' = 1
    /\ RetryLeave
    /\ UNCHANGED <<downloaded, d_downloaded, ts, bad_zips>>
    /\ UNCHANGED world_vars
    /\ UNCHANGED stats_vars

\* handle_gtfs_file is entered: downloaded = False, the loop over stats_dates starts
HandleFile ==
    /\ pc = "file"
    /\ downloaded' = FALSE
    /\ date_i' = 1
    /\ pc' = "date"
    /\ UNCHANGED <<ffill_dict, file_dates_dict, file_i, d_downloaded, ts, bad_zips,
                   run_failed>>
    /\ UNCHANGED <<retry_vars, world_vars, hist_vars>>
    /\ UNCHANGED stats_vars

\* a run that never finds the trip stats pickle
NeverHasTripStats(date_str) == FALSE

\* a run that looks for the route stats pickle instead
HasRouteStats(date_str) == Exists(output_folder, route_stats_output_path(date_str))

\* os.path.exists(trip_stats_output_path)
HasTripStats(date_str) == Exists(output_folder, trip_stats_output_path(date_str))

\* a get_gtfs_file that looks at the local folder even when forced
UseLocalThoughForced(force) == Exists(gtfs_folder, CurFile)

\* a get_gtfs_file that never looks at the local folder
UseLocalNever(force) == FALSE

\* get_gtfs_file's test: use the local file
UseLocal(force) == ~force /\ Exists(gtfs_folder, CurFile)

\* handle_gtfs_date is entered: the trip stats pickle is read if it is there,
\* else get_gtfs_file(file, ...) looks for the file in the local folder
HandleDate ==
    /\ pc = "date"
    /\ bad_zips' = 0
    /\ d_downloaded' = FALSE
    /\ IF HasTripStats(CurDate)
       THEN /\ ts' = output_folder[trip_stats_output_path(CurDate)]
            /\ pc' = "route_stats"
            /\ log' = log \o <<Ev("begin", CurFile, CurDate), Ev("read_trip", CurFile, CurDate)>>
            /\ UNCHANGED retry_vars
       ELSE /\ ts' = NoTable
            /\ IF UseLocal(FALSE)
               THEN /\ pc' = "feed"
                    /\ log' = Append(log, Ev("begin", CurFile, CurDate))
                    /\ UNCHANGED retry_vars
               ELSE /\ pc' = "download"
                    /\ log' = log \o <<Ev("begin", CurFile, CurDate), Ev("fetch", CurFile, CurDate)>>
                    /\ RetryEnter(DEFAULT_DELAYS)
    /\ UNCHANGED <<ffill_dict, file_dates_dict, file_i, date_i, downloaded, run_failed>>
    /\ UNCHANGED <<world_vars, runs, start_output, start_gtfs>>
    /\ UNCHANGED stats_vars

\* what bucket.download_file(key, output_path) can do
DownloadOutcomes(key) ==
    IF key \in bucket THEN {"good", "bad", "E1"} ELSE {"E1"}

\* one try of s3_download inside the retry wrapper; when the wrapper returns
\* (its frame is gone), get_gtfs_file returns downloaded = True; when it
\* raises, the exception leaves handle_gtfs_date
DownloadAttempt ==
    /\ pc = "download"
    /\ r_pc = "try"
    /\ \E outcome \in DownloadOutcomes(CurFile) :
         IF outcome \in Retryable
         THEN /\ RetryAttempt(outcome)
              /\ gtfs_folder' = gtfs_folder
              /\ pc' = IF r_pc' = "raised" THEN "except" ELSE "download"
              /\ d_downloaded' = d_downloaded
         ELSE /\ RetryLeave
              /\ gtfs_folder' = WriteFile(gtfs_folder, CurFile, outcome)
              /\ pc' = "feed"
              /\ d_downloaded' = TRUE
    /\ UNCHANGED <<bucket, output_folder, forward_fill, future_days,
                   delete_downloaded_gtfs_zips, archive>>
    /\ UNCHANGED <<ffill_dict, file_dates_dict, file_i, date_i, downloaded, ts, bad_zips,
                   run_failed>>
    /\ UNCHANGED hist_vars
    /\ UNCHANGED stats_vars

\* gu.get_partridge_feed_by_date(gtfs_folder + file, date): BadZipFile on a
\* corrupt archive; the first is caught and answered by
\* get_gtfs_file(..., force=True), the second is not caught
MakeFeed ==
    /\ pc = "feed"
    /\ IF gtfs_folder[CurFile] = "good"
       THEN /\ pc' = "trip_stats"
            /\ log' = Append(log, Ev("window", CurFile, CurDate))
            /\ UNCHANGED <<bad_zips, retry_vars>>
       ELSE /\ bad_zips' = bad_zips + 1
            /\ IF bad_zips = 0
               THEN IF UseLocal(TRUE)
                    THEN /\ pc' = "feed"
                         /\ log' = Append(log, Ev("window", CurFile, CurDate))
                         /\ UNCHANGED retry_vars
                    ELSE /\ pc' = "download"
                         /\ log' = log \o <<Ev("window", CurFile, CurDate),
                                             Ev("fetch", CurFile, CurDate)>>
                         /\ RetryEnter(DEFAULT_DELAYS)
               ELSE /\ pc' = "except"
                    /\ log' = Append(log, Ev("window", CurFile, CurDate))
                    /\ UNCHANGED retry_vars
    /\ UNCHANGED <<ffill_dict, file_dates_dict, file_i, date_i, downloaded, d_downloaded,
                   ts, run_failed>>
    /\ UNCHANGED <<world_vars, runs, start_output, start_gtfs>>
    /\ UNCHANGED stats_vars

\* what a rollup and its to_pickle can do: the file is written, or an
\* exception is raised before anything is written
RollupOutcomes == {"ok", "raise"}

\* a run that goes on after an exception
NeverStops(outcome) == FALSE

\* nothing in handle_gtfs_date, handle_gtfs_file or the loop of batch_stats_s3
\* catches the exception of a rollup: it ends them all
Stops(outcome) == outcome = "raise"

\* the loop over stats_dates without its last date
MoreDatesButLast == date_i < Len(CurDates) - 1

\* for date_str in t: there is a next date
MoreDates == date_i < Len(CurDates)

\* compute_trip_stats_partridge, ts['date'] = date_str, ts.to_pickle
TripStats ==
    /\ pc = "trip_stats"
    /\ \E outcome \in RollupOutcomes :
          /\ ts' = IF outcome = "ok" THEN compute_trip_stats(CurFile, CurDate, runs) ELSE ts
          /\ output_folder' = IF outcome = "ok"
                              THEN WriteFile(output_folder, trip_stats_output_path(CurDate), ts')
                              ELSE output_folder
          /\ log' = IF outcome = "ok" THEN Append(log, Ev("trip_stats", CurFile, CurDate))
                    ELSE log
          /\ pc' = IF Stops(outcome) THEN "except" ELSE "route_stats"
    /\ UNCHANGED <<bucket, gtfs_folder, forward_fill, future_days,
                   delete_downloaded_gtfs_zips, archive>>
    /\ UNCHANGED <<ffill_dict, file_dates_dict, file_i, date_i, downloaded, d_downloaded,
                   bad_zips, run_failed>>
    /\ UNCHANGED <<retry_vars, runs, start_output, start_gtfs>>
    /\ UNCHANGED stats_vars

\* a handle_gtfs_file that takes every file for downloaded
AlwaysDownloaded(returned) == TRUE

\* what handle_gtfs_file keeps of the value handle_gtfs_date returns
KeepDownloaded(returned) == returned

\* compute_route_stats_base_partridge, rs['date'] = date_str, rs.to_pickle;
\* handle_gtfs_date returns downloaded and the loop over stats_dates goes on
RouteStats ==
    /\ pc = "route_stats"
    /\ \E outcome \in RollupOutcomes :
          IF Stops(outcome)
          THEN /\ pc' = "except"
               /\ UNCHANGED <<output_folder, log, downloaded, date_i>>
          ELSE /\ output_folder' = WriteFile(output_folder, route_stats_output_path(CurDate),
                                             compute_route_stats(ts, CurDate, runs))
               /\ log' = log \o <<Ev("route_stats", CurFile, CurDate),
                                   Ev("end", CurFile, CurDate)>>
               /\ downloaded' = KeepDownloaded(d_downloaded)
               /\ IF MoreDates
                  THEN /\ date_i' = date_i + 1
                       /\ pc' = "date"
                  ELSE /\ date_i' = date_i
                       /\ pc' = "file_end"
    /\ UNCHANGED <<bucket, gtfs_folder, forward_fill, future_days,
                   delete_downloaded_gtfs_zips, archive>>
    /\ UNCHANGED <<ffill_dict, file_dates_dict, file_i, d_downloaded, ts, bad_zips,
                   run_failed>>
    /\ UNCHANGED <<retry_vars, runs, start_output, start_gtfs>>
    /\ UNCHANGED stats_vars

\* handle_gtfs_file after its loop: remove or keep the zip file; then the
\* loop over the files goes on
EndFile ==
    /\ pc = "file_end"
    /\ IF delete_downloaded_gtfs_zips /\ downloaded
       THEN /\ gtfs_folder' = RemoveFile(gtfs_folder, CurFile)
            /\ log' = Append(log, Ev("remove", CurFile, NaT))
       ELSE /\ gtfs_folder' = gtfs_folder
            /\ log' = Append(log, Ev("keep", CurFile, NaT))
    /\ IF file_i < Len(RunFiles)
       THEN /\ file_i' = file_i + 1
            /\ pc' = "file"
       ELSE /\ file_i' = file_i
            /\ pc' = "finish"
    /\ UNCHANGED <<bucket, output_folder, forward_fill, future_days,
                   delete_downloaded_gtfs_zips, archive>>
    /\ UNCHANGED <<ffill_dict, file_dates_dict, date_i, downloaded, d_downloaded, ts,
                   bad_zips, run_failed>>
    /\ UNCHANGED <<retry_vars, runs, start_output, start_gtfs>>
    /\ UNCHANGED stats_vars

\* batch_stats_s3 after the loop: the try block ends
FinishRun ==
    /\ pc = "finish"
    /\ pc' = "done"
    /\ UNCHANGED <<ffill_dict, file_dates_dict, file_i, date_i, downloaded, d_downloaded,
                   ts, bad_zips, run_failed>>
    /\ UNCHANGED <<retry_vars, world_vars, hist_vars>>
    /\ UNCHANGED stats_vars

\* the work item an exception came from; none when it came from the listing
FailedEv == IF RunFiles = <<>> THEN Ev("failed", ZipName(NaT), NaT)
            ELSE Ev("failed", CurFile, CurDate)

\* an except clause that removes what the run has written
ExceptRollsBack ==
    /\ pc = "except"
    /\ run_failed' = TRUE
    /\ pc' = "done"
    /\ log' = Append(log, FailedEv)
    /\ output_folder' = start_output
    /\ UNCHANGED <<bucket, gtfs_folder, forward_fill, future_days,
                   delete_downloaded_gtfs_zips, archive>>
    /\ UNCHANGED <<ffill_dict, file_dates_dict, file_i, date_i, downloaded, d_downloaded,
                   ts, bad_zips>>
    /\ UNCHANGED <<retry_vars, runs, start_output, start_gtfs>>
    /\ UNCHANGED stats_vars

\* except: logger.error('Failed', exc_info=True); batch_stats_s3 returns
Except ==
    /\ pc = "except"
    /\ run_failed' = TRUE
    /\ pc' = "done"
    /\ log' = Append(log, FailedEv)
    /\ UNCHANGED <<ffill_dict, file_dates_dict, file_i, date_i, downloaded, d_downloaded,
                   ts, bad_zips>>
    /\ UNCHANGED <<retry_vars, world_vars, runs, start_output, start_gtfs>>
    /\ UNCHANGED stats_vars

-----------------------------------------------------------------------------
(* Initial states *)

\* days of the watched period without route stats when the first run starts
MaxPending == 3

\* the buckets of the batch specification: dated archives 1, 60 and 61 days
\* apart, and an object that is no dated archive
Buckets ==
    { {ZipName(0), <<1, "txt">>},
      {ZipName(0), ZipName(1)},
      {ZipName(0), ZipName(61)},
      {ZipName(1), ZipName(61)} }

FutureDaysChoices == {0, 60}

\* the output of an earlier run (run 0) for a day
PriorTripStats(d) == compute_trip_stats(ZipName(d), d, 0)
PriorRouteStats(d) == compute_route_stats(PriorTripStats(d), d, 0)

\* the watched part of an output folder in which the days of `pending` have
\* no route stats and, of these, only the days of `half` have trip stats (an
\* earlier run stopped at its first pending day, between its two writes)
OutputFolder(pending, half) ==
    LET names == {trip_stats_output_path(d) : d \in (Watched \ pending) \cup half}
                 \cup {route_stats_output_path(d) : d \in Watched \ pending}
    IN  [n \in names |-> IF n[2] = "trip_stats" THEN PriorTripStats(n[1])
                         ELSE PriorRouteStats(n[1])]

OutputFolders ==
    {OutputFolder(pending, half) :
        <<pending, half>> \in {ph \in (SUBSET Watched) \X (SUBSET Watched) :
                                  /\ Cardinality(ph[1]) <= MaxPending
                                  /\ \/ ph[2] = {}
                                     \/ ph[1] # {} /\ ph[2] = {SetMin(ph[1])}}}

\* local folders: empty, or the bucket's first archive, sound or corrupt
GtfsFolders(objects) ==
    LET f == get_bucket_valid_files(objects)[1]
    IN  {<<>>} \cup {[n \in {f} |-> q] : q \in {"good", "bad"}}

\* an output folder that holds a file of another name next to the output of
\* every watched day
StrayFolders == {WriteFile(OutputFolder({}, {}), StrayName, NoTable)}

RetryIdle ==
    /\ r_pc = "idle"
    /\ r_delays = DEFAULT_DELAYS
    /\ r_i = 1
    /\ problems = <<>>
    /\ r_exc = NoExc
    /\ r_log = <<>>

\* no table is being computed
StatsIdle ==
    /\ feed = <<>>
    /\ merged = <<>>
    /\ h = <<>>
    /\ group = <<>>
    /\ route_d = <<>>

FramesIdle ==
    /\ ffill_dict = <<>>
    /\ file_dates_dict = <<>>
    /\ file_i = 1
    /\ date_i = 1
    /\ downloaded = FALSE
    /\ d_downloaded = FALSE
    /\ ts = NoTable
    /\ bad_zips = 0
    /\ run_failed = FALSE
    /\ runs = 0
    /\ log = <<>>

Init ==
    /\ RetryIdle
    /\ FramesIdle
    /\ StatsIdle
    /\ pc = "idle"
    /\ bucket \in Buckets
    /\ forward_fill \in BOOLEAN
    /\ future_days \in (IF forward_fill THEN FutureDaysChoices ELSE {0})
    /\ delete_downloaded_gtfs_zips \in BOOLEAN
    /\ gtfs_folder \in GtfsFolders(bucket)
    /\ \/ /\ archive = {<<0, LastDay>>}
          /\ output_folder \in OutputFolders \cup StrayFolders
       \/ /\ archive = {}
          /\ ~forward_fill
          /\ output_folder = <<>>
    /\ start_output = output_folder
    /\ start_gtfs = gtfs_folder

Next ==
    \/ StartRun
    \/ HandleFile
    \/ HandleDate
    \/ DownloadAttempt
    \/ MakeFeed
    \/ TripStats
    \/ RouteStats
    \/ EndFile
    \/ FinishRun
    \/ Except

Spec == Init /\ [][Next]_vars

-----------------------------------------------------------------------------
(* The retry decorator alone, around an arbitrary function *)

\* the decorator's delays: the prefixes of the default tuple
DelayChoices == {SubSeq(DEFAULT_DELAYS, 1, n) : n \in 0..Len(DEFAULT_DELAYS)}

WorldIdle ==
    /\ bucket = {}
    /\ gtfs_folder = <<>>
    /\ output_folder = <<>>
    /\ forward_fill = FALSE
    /\ future_days = 0
    /\ delete_downloaded_gtfs_zips = FALSE
    /\ archive = {}
    /\ start_output = <<>>
    /\ start_gtfs = <<>>

InitRetry ==
    /\ r_pc = "try"
    /\ r_delays \in DelayChoices
    /\ r_i = 1
    /\ problems = <<>>
    /\ r_exc = NoExc
    /\ r_log = <<>>
    /\ FramesIdle
    /\ StatsIdle
    /\ WorldIdle
    /\ pc = "wrapped"

\* func(*args, **kwargs) is tried
WrappedAttempt ==
    /\ pc = "wrapped"
    /\ \E outcome \in Outcomes : RetryAttempt(outcome)
    /\ UNCHANGED <<world_vars, frame_vars, hist_vars>>
    /\ UNCHANGED stats_vars

NextRetry == WrappedAttempt

SpecRetry == InitRetry /\ [][NextRetry]_vars

-----------------------------------------------------------------------------
(* The scheduler alone, over more buckets and output folders *)

SchedDays == {0, 1, 60, 61, 62}
SchedBuckets ==
    {{ZipName(d) : d \in days} \cup {<<1, "txt">>} : days \in (SUBSET SchedDays) \ {{}}}
SchedFutureDays == {1, 60}
SchedArchives == {{}, {<<30, 90>>}}

InitSched ==
    /\ RetryIdle
    /\ FramesIdle
    /\ StatsIdle
    /\ pc = "idle"
    /\ bucket \in SchedBuckets
    /\ forward_fill \in BOOLEAN
    /\ future_days \in (IF forward_fill THEN SchedFutureDays ELSE {0})
    /\ delete_downloaded_gtfs_zips = FALSE
    /\ archive \in SchedArchives
    /\ gtfs_folder = <<>>
    /\ output_folder \in OutputFolders
    /\ start_output = output_folder
    /\ start_gtfs = gtfs_folder

NextSched == StartRun

SpecSched == InitSched /\ [][NextSched]_vars

-----------------------------------------------------------------------------
(* What a wrapped call did, read off r_log *)

Calls == SelectSeq(r_log, LAMBDA e : e.ev = "call")
\* what each call of func raised, in the order of the calls
CallProblems == [i \in 1..Len(Calls) |-> Calls[i].problem]
ReportEvs == SelectSeq(r_log, LAMBDA e : e.ev \in {"report failed", "report definitely"})
SleepEvs == SelectSeq(r_log, LAMBDA e : e.ev = "sleep")
\* every call of func so far raised a retryable exception
AllFailed == \A i \in 1..Len(CallProblems) : CallProblems[i] \in Retryable

\* C1: Retry Executor, exhaustion.  While func fails with a retryable
\* exception on every call, the wrapper with n delays goes on trying until it
\* has made n+1 calls, never returns, and after the call n+1 it has raised the
\* exception of that call and its last act was the final report, which
\* carries every failure in the order of the calls.
C1_Exhaustion ==
    (pc = "wrapped" /\ AllFailed) =>
        /\ Len(Calls) <= Len(r_delays) + 1
        /\ r_pc # "returned"
        /\ Len(Calls) <= Len(r_delays) => r_pc = "try"
        /\ Len(Calls) = Len(r_delays) + 1 =>
              /\ r_pc = "raised"
              /\ r_exc = CallProblems[Len(Calls)]
              /\ r_log[Len(r_log)] = ReportDefinitelyEv(CallProblems)

C1_Witness ==
    /\ pc = "wrapped" /\ r_pc = "raised"
    /\ Len(r_delays) = 2
    /\ CallProblems = <<"E2", "E1", "E2">>

\* C2 as stated: when func fails on every call and the default delays are
\* exhausted, report was called exactly once, at the end, with every failure
\* in order.
C2_ReportsOnce ==
    (pc = "wrapped" /\ AllFailed /\ r_pc = "raised" /\ r_delays = DEFAULT_DELAYS) =>
        /\ Len(ReportEvs) = 1
        /\ r_log[Len(r_log)] = ReportDefinitelyEv(CallProblems)

\* C2, amended: when func fails on every call and the default delays are
\* exhausted, report was called once after every failed call, 8 times in all:
\* after each of the first 7 failures with that failure and the delay that
\* follows, and after the 8th, as the wrapper's last act and only then, with
\* every failure in order.
C2_ReportsEveryFailure ==
    (pc = "wrapped" /\ AllFailed /\ r_pc = "raised" /\ r_delays = DEFAULT_DELAYS) =>
        /\ Len(ReportEvs) = Len(DEFAULT_DELAYS) + 1
        /\ \A i \in 1..Len(DEFAULT_DELAYS) :
              ReportEvs[i] = ReportFailedEv(CallProblems[i], DEFAULT_DELAYS[i])
        /\ ReportEvs[Len(ReportEvs)] = ReportDefinitelyEv(CallProblems)
        /\ r_log[Len(r_log)] = ReportDefinitelyEv(CallProblems)

C2_Witness ==
    /\ pc = "wrapped" /\ r_pc = "raised" /\ AllFailed
    /\ r_delays = DEFAULT_DELAYS
    /\ Len(ReportEvs) = 8
    /\ Len(SleepEvs) = 7

-----------------------------------------------------------------------------
(* What a run did and found, read off its log and its plan *)

Did(op, file, date_str) == Ev(op, file, date_str) \in Range(log)
\* the first position of an event in the log
Pos(op, file, date_str) == CHOOSE i \in 1..Len(log) : log[i] = Ev(op, file, date_str)
\* the work items of the run: <<file, date>>
WorkItems ==
    UNION {{<<RunFiles[i][1], RunFiles[i][2][j]>> : j \in 1..Len(RunFiles[i][2])} :
              i \in 1..Len(RunFiles)}
\* the output files the run found when it started
FoundOutput == DOMAIN start_output \cup ArchiveFiles
\* the nominal days of the bucket's dated archives
Snapshots == {o[1] : o \in {b \in bucket : b[2] = "zip"}}
\* the days of the forward fill's period
FillPeriod == SetMin(Snapshots)..(SetMax(Snapshots) + future_days)
\* the latest snapshot at or before a day of the period
Preceding(d) == SetMax({sn \in Snapshots : sn <= d})
\* the keys of a dict under which a day is listed
ListedUnder(dict, d) == {dict[i][1] : i \in {k \in 1..Len(dict) : d \in Range(dict[k][2])}}
\* no day is listed twice in a dict: it has as many entries as days
Entries(dict) ==
    {ij \in (1..Len(dict)) \X (1..(LastDay + 1)) : ij[2] <= Len(dict[ij[1]][2])}
ListedDays(dict) == UNION {Range(dict[i][2]) : i \in 1..Len(dict)}
NoDayTwice(dict) == Cardinality(Entries(dict)) = Cardinality(ListedDays(dict))

\* Sanity of the archive: a run of the batch specification works on watched
\* days only.
ArchiveUntouched == \A w \in WorkItems : w[2] \in Watched

\* C3 as stated: a run in which a work item failed for good has still
\* processed every other work item of its plan.
C3_FailureIsolation ==
    (pc = "done" /\ run_failed) =>
        \A w \in WorkItems : Did("failed", w[1], w[2]) \/ Did("end", w[1], w[2])

\* C4 as stated: with the delete flag set, a file the run fetched while
\* processing any of its dates is removed once the last of its dates has been
\* processed, and no file is removed before all its dates have been processed.
C4_DeleteAfterProcessing ==
    delete_downloaded_gtfs_zips =>
        \A i \in 1..Len(RunFiles) :
            LET file == RunFiles[i][1]
                fetched == \E e \in Range(log) : e.op = "fetch" /\ e.file = file
                ended == Did("keep", file, NaT) \/ Did("remove", file, NaT)
            IN  /\ (ended /\ fetched) =>
                      (Did("remove", file, NaT) /\ ~Exists(gtfs_folder, file))
                /\ Did("remove", file, NaT) =>
                      \A j \in 1..Len(RunFiles[i][2]) :
                          /\ Did("end", file, RunFiles[i][2][j])
                          /\ Pos("end", file, RunFiles[i][2][j]) < Pos("remove", file, NaT)

\* C5: Orchestrator idempotence.  A run that finds both artifacts of a date
\* makes no fetch, no trip rollup and no route rollup for that date (no work
\* item for it at all) and leaves both artifacts as it found them.
C5_Idempotence ==
    \A d \in Watched :
        ({trip_stats_output_path(d), route_stats_output_path(d)} \subseteq DOMAIN start_output) =>
            /\ \A e \in Range(log) : e.date # d
            /\ \A w \in WorkItems : w[2] # d
            /\ Exists(output_folder, trip_stats_output_path(d))
            /\ Exists(output_folder, route_stats_output_path(d))
            /\ output_folder[trip_stats_output_path(d)] = start_output[trip_stats_output_path(d)]
            /\ output_folder[route_stats_output_path(d)] = start_output[route_stats_output_path(d)]

\* a second run is over; it found the artifacts the first run had written
\* for one date and has itself written those of another
C5_Witness ==
    /\ runs = 2 /\ pc = "done"
    /\ \E d \in Watched :
          /\ Exists(start_output, route_stats_output_path(d))
          /\ start_output[route_stats_output_path(d)].written_in = 1
          /\ start_output[trip_stats_output_path(d)].written_in = 1
    /\ \E d \in Watched :
          /\ Exists(output_folder, route_stats_output_path(d))
          /\ output_folder[route_stats_output_path(d)].written_in = 2

\* C6: Forward-fill plan.  Every day of the period whose latest snapshot at or
\* before it lies at most 59 days back is listed under that snapshot's key
\* and under no other key; with snapshots on days 0 and 60 only (2024-01-01
\* and 2024-03-01), 0.zip gets exactly the days 0..59 and 60.zip the days
\* from 60 on (to the end of the period or of its own 59 days); no day is
\* listed twice.
C6_ForwardFillPlan ==
    (pc # "idle" /\ forward_fill) =>
        /\ \A d \in FillPeriod :
              (d - Preceding(d) <= 59) =>
                  ListedUnder(ffill_dict, d) = {ZipName(Preceding(d))}
        /\ Snapshots = {0, 60} =>
              /\ DictGet(ffill_dict, ZipName(0)) = [i \in 1..60 |-> i - 1]
              /\ DictGet(ffill_dict, ZipName(60)) =
                    [i \in 1..(IF future_days <= 59 THEN future_days + 1 ELSE 60) |-> 59 + i]
        /\ NoDayTwice(ffill_dict)

C6_Witness ==
    /\ pc # "idle" /\ forward_fill
    /\ Snapshots = {0, 60}
    /\ future_days = 1
    /\ Len(DictGet(ffill_dict, ZipName(0))) = 60

\* the days of the period that lie more than the maximum gap after their
\* preceding snapshot
Uncovered == {d \in FillPeriod : d - Preceding(d) > 59}

\* C7 as stated: in forward-fill mode a day more than the maximum gap after
\* its preceding snapshot is listed under no key of the plan, is in no work
\* list, causes no fetch, and no run fails on it.
C7_GapLeftUncovered ==
    (pc # "idle" /\ forward_fill) =>
        \A d \in Uncovered :
            /\ ListedUnder(ffill_dict, d) = {}
            /\ ListedUnder(file_dates_dict, d) = {}
            /\ \A e \in Range(log) : e.op \in {"fetch", "failed"} => e.date # d

\* C8: Scheduler, direct mode.  The work list of every dated archive D.zip of
\* the bucket is [D] when the run found no route stats for D and empty when it
\* found them; no work list holds a date other than its key's own.
C8_DirectMode ==
    (pc # "idle" /\ ~forward_fill) =>
        /\ \A D \in Snapshots :
              DictGet(file_dates_dict, ZipName(D)) =
                  IF route_stats_output_path(D) \in FoundOutput THEN <<>> ELSE <<D>>
        /\ \A i \in 1..Len(file_dates_dict) :
              /\ file_dates_dict[i][1] \in bucket
              /\ \A j \in 1..Len(file_dates_dict[i][2]) :
                    ZipName(file_dates_dict[i][2][j]) = file_dates_dict[i][1]

\* one archive is scheduled although the trip stats of its date exist, another
\* is not because its route stats exist
C8_Witness ==
    /\ pc # "idle" /\ ~forward_fill
    /\ \E D \in Snapshots :
          /\ DictGet(file_dates_dict, ZipName(D)) = <<D>>
          /\ trip_stats_output_path(D) \in FoundOutput
    /\ \E D \in Snapshots :
          /\ DictGet(file_dates_dict, ZipName(D)) = <<>>
          /\ route_stats_output_path(D) \in FoundOutput

\* C9: Scheduler, forward-fill mode.  The work list of every key of the plan
\* is the plan's list of that key without the dates whose output (the route
\* stats, the one output the scheduler looks at) the run found, in the plan's
\* order; no date with such output is in any work list.
C9_FillWorkLists ==
    (pc # "idle" /\ forward_fill) =>
        /\ Len(file_dates_dict) = Len(ffill_dict)
        /\ \A i \in 1..Len(ffill_dict) :
              /\ file_dates_dict[i][1] = ffill_dict[i][1]
              /\ file_dates_dict[i][2] =
                    SelectSeq(ffill_dict[i][2],
                              LAMBDA d : route_stats_output_path(d) \notin FoundOutput)
        /\ \A i \in 1..Len(file_dates_dict) :
              \A j \in 1..Len(file_dates_dict[i][2]) :
                 route_stats_output_path(file_dates_dict[i][2][j]) \notin FoundOutput

\* a key keeps some of its dates and loses others
C9_Witness ==
    /\ pc # "idle" /\ forward_fill
    /\ \E i \in 1..Len(ffill_dict) :
          /\ Len(file_dates_dict[i][2]) >= 2
          /\ Len(file_dates_dict[i][2]) < Len(ffill_dict[i][2])
          /\ \E j \in 1..Len(ffill_dict[i][2]) :
                /\ j < Len(ffill_dict[i][2])
                /\ ffill_dict[i][2][j] \notin Range(file_dates_dict[i][2])
                /\ ffill_dict[i][2][j + 1] \in Range(file_dates_dict[i][2])

\* C10: Skip-if-exists.  Once a work item has computed its route stats: if
\* the trip stats of its date existed when it started, the item has computed
\* and written no trip stats, the trip stats file is as it was, and the route
\* stats written are those of the content read; if they did not exist, the
\* trip stats were computed and persisted before the route stats were
\* computed, from them.  No item computes trip stats that existed.
C10_SkipIfExists ==
    \A w \in WorkItems :
        LET file == w[1]
            d == w[2]
            trip == trip_stats_output_path(d)
            route == route_stats_output_path(d)
        IN  /\ Did("trip_stats", file, d) => ~Exists(start_output, trip)
            /\ Did("route_stats", file, d) =>
                  /\ Exists(output_folder, trip)
                  /\ Exists(output_folder, route)
                  /\ output_folder[route].of = <<output_folder[trip]>>
                  /\ IF Exists(start_output, trip)
                     THEN /\ ~Did("trip_stats", file, d)
                          /\ ~Did("window", file, d)
                          /\ output_folder[trip] = start_output[trip]
                     ELSE /\ Did("trip_stats", file, d)
                          /\ Pos("trip_stats", file, d) < Pos("route_stats", file, d)
                          /\ output_folder[trip].written_in = runs

\* one run has reused the trip stats of one date and computed those of another
C10_Witness ==
    \E w1 \in WorkItems, w2 \in WorkItems :
        /\ Did("read_trip", w1[1], w1[2]) /\ Did("route_stats", w1[1], w1[2])
        /\ Exists(start_output, trip_stats_output_path(w1[2]))
        /\ Did("trip_stats", w2[1], w2[2]) /\ Did("route_stats", w2[1], w2[2])

\* the events of one work item, in order
ItemLog(file, date_str) == SelectSeq(log, LAMBDA e : e.file = file /\ e.date = date_str)
\* the positions of the windowing attempts in an item's events
Windows(il) == {i \in 1..Len(il) : il[i].op = "window"}
\* the positions of the forced fetches: those that follow a windowing attempt
ForcedFetches(il) == {i \in 1..Len(il) : il[i].op = "fetch" /\ \E j \in Windows(il) : j < i}
\* handle_gtfs_date is at work on the current item, or has failed on it
InItem == /\ RunFiles # <<>>
          /\ \/ pc \in {"download", "feed", "trip_stats", "route_stats", "except"}
             \/ (pc = "done" /\ run_failed)

Written(op) == {i \in 1..Len(log) : log[i].op = op}

\* C12: Batch-run boundary.  An exception raised by the listing or by a work
\* item is logged once, as the last thing the run does, and the run is over
\* (batch_stats_s3 has returned, no work item is begun after it); every file
\* the run found is still there as it was found, and every file the run wrote
\* before the exception is there as it was written.
C12_RunBoundary ==
    /\ run_failed =>
          /\ pc = "done"
          /\ log # <<>>
          /\ log[Len(log)].op = "failed"
          /\ Cardinality(Written("failed")) = 1
    /\ ~run_failed => Written("failed") = {}
    /\ \A n \in DOMAIN start_output :
          Exists(output_folder, n) /\ output_folder[n] = start_output[n]
    /\ \A i \in Written("trip_stats") :
          /\ Exists(output_folder, trip_stats_output_path(log[i].date))
          /\ output_folder[trip_stats_output_path(log[i].date)] =
                compute_trip_stats(log[i].file, log[i].date, runs)
    /\ \A i \in Written("route_stats") :
          /\ Exists(output_folder, route_stats_output_path(log[i].date))
          /\ output_folder[route_stats_output_path(log[i].date)] =
                compute_route_stats(output_folder[trip_stats_output_path(log[i].date)],
                                    log[i].date, runs)

\* a run has failed on its second work item after writing both files of the
\* first
C12_Witness ==
    /\ pc = "done" /\ run_failed
    /\ Written("route_stats") # {}
    /\ Written("trip_stats") # {}

\* C13: Local cache before fetch.  The unforced request of a work item
\* (handle_gtfs_date's first call of get_gtfs_file) makes no retrieval when
\* the file is in the local folder and returns downloaded = False; when the
\* file is not there it makes a retrieval through the retry wrapper, with
\* the default delays, and returns downloaded = True when the retrieval
\* returns, with the file in the folder; a retrieval that does not return has
\* failed on every try of the wrapper.
C13_LocalCacheFirst ==
    [][ /\ (pc = "date" /\ pc' \in {"feed", "download"}) =>
              IF Exists(gtfs_folder, CurFile)
              THEN /\ pc' = "feed"
                   /\ d_downloaded' = FALSE
                   /\ log' = Append(log, Ev("begin", CurFile, CurDate))
                   /\ UNCHANGED <<retry_vars, gtfs_folder>>
              ELSE /\ pc' = "download"
                   /\ d_downloaded' = FALSE
                   /\ log'[Len(log')] = Ev("fetch", CurFile, CurDate)
                   /\ r_pc' = "try" /\ r_delays' = DEFAULT_DELAYS /\ problems' = <<>>
                   /\ UNCHANGED gtfs_folder
        /\ (pc = "download" /\ pc' = "feed") =>
              /\ d_downloaded' = TRUE
              /\ Exists(gtfs_folder', CurFile)
        /\ (pc = "download" /\ pc' = "except") =>
              /\ Len(problems') = Len(DEFAULT_DELAYS) + 1
              /\ UNCHANGED <<gtfs_folder, d_downloaded>>
        /\ (pc = "feed" /\ bad_zips = 0 /\ pc' = "trip_stats") =>
              (d_downloaded <=> \E e \in Range(ItemLog(CurFile, CurDate)) : e.op = "fetch")
      ]_vars

\* a file has been fetched for one of its dates and is found in the local
\* folder for the next
C13_Witness ==
    /\ pc = "feed" /\ bad_zips = 0 /\ ~d_downloaded
    /\ downloaded
    /\ ~Exists(start_gtfs, CurFile)
    /\ \E e \in Range(log) : e.op = "fetch" /\ e.file = CurFile

RECURSIVE PlanFrom(_)
\* the work items of the files from position i on, file by file, each
\* file's dates in the order of its list
PlanFrom(i) ==
    IF i > Len(RunFiles) THEN <<>>
    ELSE [j \in 1..Len(RunFiles[i][2]) |-> <<RunFiles[i][1], RunFiles[i][2][j]>>]
            \o PlanFrom(i + 1)
Plan == PlanFrom(1)
\* an event that ends a work item
IsClose(e) == e.op = "end" \/ (e.op = "failed" /\ RunFiles # <<>>)
\* the begins and ends of the work items, in order
Marks == SelectSeq(log, LAMBDA e : e.op = "begin" \/ IsClose(e))
\* the events that belong to a work item
IsItemEv(e) == e.op \notin {"keep", "remove"} /\ (e.op = "failed" => RunFiles # <<>>)
\* the position of the last begin at or before a position of the log
LastBegin(i) == SetMax({k \in 1..i : log[k].op = "begin"})

\* C14: Processing order.  The work items are begun in the order of the
\* plan: file after file, all dates of a file before any date of the next,
\* the dates of a file in ascending order; an item is begun only after the
\* one before it has ended, everything done between the begin and the end of
\* an item (fetches included) is done for that item, a file is removed or
\* kept after the last of its dates and before the next file's first, and a
\* retrieval is in progress only inside the one item in progress.
C14_ProcessingOrder ==
    /\ \A i \in 1..Len(RunFiles) :
          /\ \A k \in 1..Len(RunFiles) : k # i => RunFiles[k][1] # RunFiles[i][1]
          /\ \A j \in 1..Len(RunFiles[i][2]), k \in 1..Len(RunFiles[i][2]) :
                j < k => RunFiles[i][2][j] < RunFiles[i][2][k]
    /\ \A i \in 1..Len(Marks) :
          IF i % 2 = 1
          THEN /\ Marks[i].op = "begin"
               /\ (i + 1) \div 2 <= Len(Plan)
               /\ <<Marks[i].file, Marks[i].date>> = Plan[(i + 1) \div 2]
          ELSE /\ IsClose(Marks[i])
               /\ <<Marks[i].file, Marks[i].date>> = Plan[i \div 2]
    /\ \A i \in 1..Len(log) :
          IF IsItemEv(log[i])
          THEN /\ \E k \in 1..i : log[k].op = "begin"
               /\ log[i].file = log[LastBegin(i)].file
               /\ log[i].date = log[LastBegin(i)].date
               /\ \A k \in LastBegin(i)..(i - 1) : ~IsClose(log[k])
          ELSE log[i].op \in {"keep", "remove"} =>
                  /\ i > 1 /\ log[i - 1].op = "end"
                  /\ log[i - 1].file = log[i].file
                  /\ \A k \in (i + 1)..Len(log) : log[k].file # log[i].file
    /\ r_pc = "try" => (pc = "download" /\ Len(Marks) % 2 = 1)

\* a run has processed the two dates of one file and then the date of another
C14_Witness ==
    /\ pc = "done" /\ ~run_failed
    /\ Len(RunFiles) = 2
    /\ Len(RunFiles[1][2]) = 2
    /\ Len(Marks) = 6

-----------------------------------------------------------------------------
(* compute_route_stats_base_partridge: the stats of one route *)

\* gtfstk.helpers.timestr_to_seconds('HH:MM:SS')
timestr_to_seconds(hh, mm, ss) == hh * 3600 + mm * 60 + ss
\* headway_start_time='07:00:00', headway_end_time='19:00:00'
headway_start == timestr_to_seconds(7, 0, 0)
headway_end == timestr_to_seconds(19, 0, 0)

\* numbers that need not be whole are fractions num/den; np.nan is 0/0
Frac(num, den) == [num |-> num, den |-> den]
nan == Frac(0, 0)
IsNan(x) == x.den = 0
\* a fraction is the whole number n
IsWhole(x, n) == x.den # 0 /\ x.num = n * x.den

RECURSIVE SeqSum(_)
SeqSum(x) == IF x = <<>> THEN 0 ELSE Head(x) + SeqSum(Tail(x))
SeqMax(x) == SetMax(Range(x))
SeqMin(x) == SetMin(Range(x))

RECURSIVE sorted(_)
\* sorted(list): ascending, equal values kept
sorted(x) ==
    IF x = <<>> THEN <<>>
    ELSE LET m == SeqMin(x)
             i == CHOOSE k \in 1..Len(x) : x[k] = m /\ \A j \in 1..(k - 1) : x[j] # m
         IN  <<m>> \o sorted(SubSeq(x, 1, i - 1) \o SubSeq(x, i + 1, Len(x)))

\* pd.Series(1, trip_times.start_time): the rows that depart at t
Departed(trip_times, t) == {k \in 1..Len(trip_times) : trip_times[k].start_time = t}
\* arrivals that leave out the rows that depart and arrive at the same time
ArrivedLater(trip_times, t) ==
    {k \in 1..Len(trip_times) : trip_times[k].end_time = t /\ trip_times[k].start_time < t}
\* pd.Series(-1, trip_times.end_time): the rows that arrive at t
Arrived(trip_times, t) == {k \in 1..Len(trip_times) : trip_times[k].end_time = t}

\* a sum that leaves the arrivals out
SummedDeparturesOnly(trip_times, t) == Cardinality(Departed(trip_times, t))

\* .groupby(level=0, sort=True).sum(): the sum of the +1 and -1 at one time
Summed(trip_times, t) ==
    Cardinality(Departed(trip_times, t)) - Cardinality(Arrived(trip_times, t))

RECURSIVE cumsum(_, _)
\* .cumsum(): the sum of the first i values
cumsum(x, i) == IF i = 0 THEN 0 ELSE cumsum(x, i - 1) + x[i]

\* get_active_trips_df(trip_times): the series as a sequence of
\* [time, count], the index ascending
get_active_trips_df(trip_times) ==
    LET index == SetToSortedSeq({trip_times[k].start_time : k \in 1..Len(trip_times)}
                                \cup {trip_times[k].end_time : k \in 1..Len(trip_times)})
        sums == [i \in 1..Len(index) |-> Summed(trip_times, index[i])]
    IN  [i \in 1..Len(index) |-> [time |-> index[i], count |-> cumsum(sums, i)]]

\* gtfstk.helpers.get_max_runs(x): the pairs (start index, end index + 1) of
\* the runs of the maximum of x, in order (indices from 1 here)
get_max_runs(x) ==
    LET m == SeqMax(x)
        run_starts == {i \in 1..Len(x) : x[i] = m /\ (i = 1 \/ x[i - 1] # m)}
        RunEnd(i) == SetMin({j \in (i + 1)..(Len(x) + 1) : j = Len(x) + 1 \/ x[j] # m})
        starts == SetToSortedSeq(run_starts)
    IN  [k \in 1..Len(starts) |-> <<starts[k], RunEnd(starts[k])>>]

\* a selector that takes the first run of the maximum, whatever its duration
FirstRun(durations) == 1

\* np.argmax: the first position of the maximum
argmax(durations) ==
    CHOOSE k \in 1..Len(durations) :
        /\ durations[k] = SeqMax(durations)
        /\ \A j \in 1..(k - 1) : durations[j] # durations[k]

\* gtfstk.helpers.get_peak_indices(times, counts): the first run of the
\* maximum whose duration times[end] - times[start] is the longest; times[end]
\* is an IndexError when a run reaches the end of the series
get_peak_indices(times, counts) ==
    LET max_runs == get_max_runs(counts)
    IN  IF \E k \in 1..Len(max_runs) : max_runs[k][2] > Len(times)
        THEN [raised |-> TRUE, start |-> 0, end |-> 0]
        ELSE LET durations == [k \in 1..Len(max_runs) |->
                                  times[max_runs[k][2]] - times[max_runs[k][1]]]
                 run == max_runs[argmax(durations)]
             IN  [raised |-> FALSE, start |-> run[1], end |-> run[2]]

\* a window that leaves its last second out
InHeadwayWindowOpenEnd(stime) == headway_start <= stime /\ stime < headway_end

\* headway_start <= stime <= headway_end
InHeadwayWindow(stime) == headway_start <= stime /\ stime <= headway_end

\* sorted([stime for stime in group[direction_id == direction].start_time
\*         if headway_start <= stime <= headway_end])
stimes(rows, direction) ==
    LET of_direction == SelectSeq(rows, LAMBDA row : row.direction_id = direction)
        starts == [k \in 1..Len(of_direction) |-> of_direction[k].start_time]
    IN  sorted(SelectSeq(starts, InHeadwayWindow))

\* np.diff(x)
diff(x) == [i \in 1..(Len(x) - 1) |-> x[i + 1] - x[i]]

\* for direction in [0, 1]: headways = np.concatenate([headways, np.diff(stimes)])
headways_of(rows) == diff(stimes(rows, 0)) \o diff(stimes(rows, 1))

\* headway stats that are 0 when there is no headway
HeadwayStatsZero(headways) ==
    IF Len(headways) > 0
    THEN [max_headway |-> Frac(SeqMax(headways), 60),
          min_headway |-> Frac(SeqMin(headways), 60),
          mean_headway |-> Frac(SeqSum(headways), Len(headways) * 60)]
    ELSE [max_headway |-> Frac(0, 1), min_headway |-> Frac(0, 1),
          mean_headway |-> Frac(0, 1)]

\* if headways.size: np.max / 60, np.min / 60, np.mean / 60; else np.nan
HeadwayStats(headways) ==
    IF Len(headways) > 0
    THEN [max_headway |-> Frac(SeqMax(headways), 60),
          min_headway |-> Frac(SeqMin(headways), 60),
          mean_headway |-> Frac(SeqSum(headways), Len(headways) * 60)]
    ELSE [max_headway |-> nan, min_headway |-> nan, mean_headway |-> nan]

\* the part of d that the headways give
ComputeHeadways ==
    /\ pc = "route_headways"
    /\ route_d' = [headways |-> headways_of(group),
                   stats |-> HeadwayStats(headways_of(group)),
                   raised |-> FALSE,
                   active_trips |-> <<>>,
                   peak_num_trips |-> 0, peak_start_time |-> 0, peak_end_time |-> 0]
    /\ pc' = "route_peak"
    /\ UNCHANGED <<feed, merged, h, group>>
    /\ UNCHANGED <<retry_vars, world_vars, hist_vars>>
    /\ UNCHANGED <<ffill_dict, file_dates_dict, file_i, date_i, downloaded, d_downloaded,
                   ts, bad_zips, run_failed>>

\* the part of d that the active trips give: counts[start], times[start],
\* times[end]; an IndexError of get_peak_indices leaves compute_route_stats
ComputePeak ==
    /\ pc = "route_peak"
    /\ LET active_trips == get_active_trips_df(group)
           times == [i \in 1..Len(active_trips) |-> active_trips[i].time]
           counts == [i \in 1..Len(active_trips) |-> active_trips[i].count]
           peak == get_peak_indices(times, counts)
       IN  route_d' =
              IF peak.raised
              THEN [route_d EXCEPT !.raised = TRUE, !.active_trips = active_trips]
              ELSE [route_d EXCEPT !.active_trips = active_trips,
                                   !.peak_num_trips = counts[peak.start],
                                   !.peak_start_time = times[peak.start],
                                   !.peak_end_time = times[peak.end]]
    /\ pc' = "route_done"
    /\ UNCHANGED <<feed, merged, h, group>>
    /\ UNCHANGED <<retry_vars, world_vars, hist_vars>>
    /\ UNCHANGED <<ffill_dict, file_dates_dict, file_i, date_i, downloaded, d_downloaded,
                   ts, bad_zips, run_failed>>

\* lines 354-380: f.groupby('route_id').apply(compute_route_stats) and the
\* columns computed from its result, for the trip stats of one route or for
\* none.  Of an empty frame apply() calls compute_route_stats for no group and
\* returns a frame without the columns it would have made, so
\* g['service_distance'] at line 358 is a KeyError.
ApplyRouteStats ==
    /\ pc = "route_apply"
    /\ IF h = <<>>
       THEN /\ group' = group
            /\ pc' = "route_raised"
       ELSE /\ group' = h
            /\ pc' = "route_headways"
    /\ UNCHANGED <<feed, merged, h, route_d>>
    /\ UNCHANGED <<retry_vars, world_vars, hist_vars>>
    /\ UNCHANGED <<ffill_dict, file_dates_dict, file_i, date_i, downloaded, d_downloaded,
                   ts, bad_zips, run_failed>>

\* trips of a group for the active trips: they start and end at these times
MaxTrips == 3
SweepTimes == {0, 5, 10, 15, 30}
SweepTrips ==
    {[start_time |-> a, end_time |-> b, direction_id |-> 0] :
        <<a, b>> \in {ab \in SweepTimes \X SweepTimes : ab[1] <= ab[2]}}

\* trips of a group for the headways: they start around the two ends of the
\* headway window and inside it, in one direction or the other, and take 10
\* minutes
MaxStarts == 4
HeadwayTimes == {headway_start - 1, headway_start, headway_start + 900,
                 headway_start + 1800, headway_end, headway_end + 1}
BackTimes == {headway_start, headway_start + 900, headway_end}
HeadwayTrips ==
    {[start_time |-> a, end_time |-> a + 600, direction_id |-> 0] : a \in HeadwayTimes}
    \cup {[start_time |-> a, end_time |-> a + 600, direction_id |-> 1] : a \in BackTimes}

Groups ==
    UNION {[1..n -> SweepTrips] : n \in 1..MaxTrips}
    \cup UNION {[1..n -> HeadwayTrips] : n \in 1..MaxStarts}

InitRoute ==
    /\ RetryIdle
    /\ FramesIdle
    /\ WorldIdle
    /\ feed = <<>>
    /\ merged = <<>>
    /\ h = <<>>
    /\ group \in Groups
    /\ route_d = <<>>
    /\ pc = "route_headways"

NextRoute == ComputeHeadways \/ ComputePeak

SpecRoute == InitRoute /\ [][NextRoute]_vars

\* the intervals of the group
Interval(k) == <<group[k].start_time, group[k].end_time>>
\* the intervals that hold an instant, their end left out
ActiveAt(t) == {k \in 1..Len(group) : group[k].start_time <= t /\ t < group[k].end_time}
\* the instants at which an interval starts or ends
Instants == {group[k].start_time : k \in 1..Len(group)}
            \cup {group[k].end_time : k \in 1..Len(group)}
\* the series as a set of time@count pairs
Series(active_trips) == {<<active_trips[i].time, active_trips[i].count>> :
                            i \in 1..Len(active_trips)}

\* C15: Active-Interval Sweep.  The series of a group has one entry for
\* every instant at which an interval starts or ends, in ascending order;
\* its count at an instant is the number of intervals that have started and
\* not yet ended at that instant; its last count is 0 and none is negative;
\* for the intervals (0,10) and (5,15) it is 1@0, 2@5, 1@10, 0@15.
C15_ActiveIntervalSweep ==
    pc = "route_done" =>
        LET a == route_d.active_trips
        IN  /\ Len(a) = Cardinality(Instants)
            /\ \A i \in 1..Len(a) :
                  /\ a[i].time \in Instants
                  /\ i > 1 => a[i - 1].time < a[i].time
                  /\ a[i].count = Cardinality(ActiveAt(a[i].time))
                  /\ a[i].count >= 0
            /\ a[Len(a)].count = 0
            /\ {Interval(k) : k \in 1..Len(group)} = {<<0, 10>>, <<5, 15>>} /\ Len(group) = 2 =>
                  a = <<[time |-> 0, count |-> 1], [time |-> 5, count |-> 2],
                        [time |-> 10, count |-> 1], [time |-> 15, count |-> 0]>>

C15_Witness ==
    /\ pc = "route_done"
    /\ group = <<[start_time |-> 0, end_time |-> 10, direction_id |-> 0],
                 [start_time |-> 5, end_time |-> 15, direction_id |-> 0]>>
    /\ Series(route_d.active_trips) = {<<0, 1>>, <<5, 2>>, <<10, 1>>, <<15, 0>>}

\* the greatest count of the series
PeakCount == SetMax({route_d.active_trips[i].count : i \in 1..Len(route_d.active_trips)})
\* the runs of instants at the greatest count, each from its first instant to
\* the instant that follows its last: <<i, j>> with the counts at i..j-1 the
\* greatest, those at i-1 and at j not
PeakRuns ==
    LET a == route_d.active_trips
    IN  {ij \in (1..Len(a)) \X (1..Len(a)) :
            /\ ij[1] < ij[2]
            /\ \A k \in ij[1]..(ij[2] - 1) : a[k].count = PeakCount
            /\ a[ij[2]].count # PeakCount
            /\ ij[1] = 1 \/ a[ij[1] - 1].count # PeakCount}
\* the time from the first instant of a run to the instant that ends it
RunLength(ij) == route_d.active_trips[ij[2]].time - route_d.active_trips[ij[1]].time

WindowStarts(direction) ==
    {k \in 1..Len(group) : /\ group[k].direction_id = direction
                           /\ headway_start <= group[k].start_time
                           /\ group[k].start_time <= headway_end}
\* the number of gaps of a direction
NumGaps(direction) ==
    IF WindowStarts(direction) = {} THEN 0 ELSE Cardinality(WindowStarts(direction)) - 1
\* gaps are the consecutive differences of the ascending start times of a
\* direction: they are not negative, and the earliest start plus the first i
\* gaps is the start time of rank i + 1
AreGapsOf(gaps, direction) ==
    /\ Len(gaps) = NumGaps(direction)
    /\ \A i \in 1..Len(gaps) : gaps[i] >= 0
    /\ \A i \in (IF WindowStarts(direction) = {} THEN {} ELSE 0..Len(gaps)) :
          LET first == SetMin({group[k].start_time : k \in WindowStarts(direction)})
              v == first + SeqSum(SubSeq(gaps, 1, i))
          IN  /\ Cardinality({k \in WindowStarts(direction) : group[k].start_time < v}) <= i
              /\ Cardinality({k \in WindowStarts(direction) : group[k].start_time <= v}) >= i + 1
\* a fraction is num/den
IsFrac(x, num, den) == x.den # 0 /\ x.num * den = num * x.den

\* C17: Headway Analyzer.  The gaps of a route are the consecutive
\* differences of the ascending start times of direction 0 that lie in the
\* headway window, both ends included, followed by those of direction 1;
\* when there is a gap, min, max and mean headway are the least, the
\* greatest and the mean of the gaps, divided by 60.  Starts at 25200, 26100
\* and 27000 in one direction give 15 minutes for all three.
C17_Headways ==
    pc \in {"route_peak", "route_done"} =>
        LET gaps == route_d.headways
            n0 == NumGaps(0)
        IN  /\ Len(gaps) = n0 + NumGaps(1)
            /\ AreGapsOf(SubSeq(gaps, 1, n0), 0)
            /\ AreGapsOf(SubSeq(gaps, n0 + 1, Len(gaps)), 1)
            /\ Len(gaps) > 0 =>
                  /\ IsFrac(route_d.stats.min_headway, SeqMin(gaps), 60)
                  /\ IsFrac(route_d.stats.max_headway, SeqMax(gaps), 60)
                  /\ IsFrac(route_d.stats.mean_headway, SeqSum(gaps), 60 * Len(gaps))
            /\ (/\ Len(group) = 3
                /\ {group[k].start_time : k \in 1..3} = {25200, 26100, 27000}
                /\ \A k \in 1..3 : group[k].direction_id = group[1].direction_id) =>
                  /\ IsWhole(route_d.stats.min_headway, 15)
                  /\ IsWhole(route_d.stats.max_headway, 15)
                  /\ IsWhole(route_d.stats.mean_headway, 15)

\* two starts in each direction, one of them at the last second of the
\* window: one gap of each direction, in the order of the directions
C17_Witness ==
    /\ pc = "route_done"
    /\ route_d.headways = <<900, headway_end - headway_start - 900>>
    /\ Cardinality(WindowStarts(0)) = 2
    /\ Cardinality(WindowStarts(1)) = 2

\* C18: Headway Analyzer, no gaps.  When each direction has at most one start
\* inside the headway window there is no gap, and min, max and mean headway
\* are all nan, none of them 0; a direction with one start inside the window
\* adds no gap to those of the other direction.
C18_NoGaps ==
    pc \in {"route_peak", "route_done"} =>
        /\ (\A direction \in {0, 1} : Cardinality(WindowStarts(direction)) <= 1) =>
              /\ route_d.headways = <<>>
              /\ IsNan(route_d.stats.min_headway) /\ ~IsWhole(route_d.stats.min_headway, 0)
              /\ IsNan(route_d.stats.max_headway) /\ ~IsWhole(route_d.stats.max_headway, 0)
              /\ IsNan(route_d.stats.mean_headway) /\ ~IsWhole(route_d.stats.mean_headway, 0)
        /\ \A direction \in {0, 1} :
              Cardinality(WindowStarts(direction)) = 1 =>
                  /\ Len(route_d.headways) = NumGaps(1 - direction)
                  /\ AreGapsOf(route_d.headways, 1 - direction)

\* one start of each direction inside the window and a third trip outside it
C18_Witness ==
    /\ pc = "route_done"
    /\ Len(group) = 3
    /\ Cardinality(WindowStarts(0)) = 1
    /\ Cardinality(WindowStarts(1)) = 1
    /\ IsNan(route_d.stats.mean_headway)

-----------------------------------------------------------------------------
(* compute_trip_stats_partridge: one row per trip *)

\* a missing value of a left merge
null == "null"

\* .merge(feed.routes[[...]]): the trips with their route, inner on route_id
MergeRoutes(trips, routes) ==
    {[trip_id |-> t.trip_id, route_id |-> t.route_id, agency_id |-> r.agency_id] :
        <<t, r>> \in {tr \in Range(trips) \X Range(routes) : tr[1].route_id = tr[2].route_id}}

\* a merge that drops the rows whose agency_id is in no row of feed.agency
MergeAgencyInner(rows, agency) ==
    {[trip_id |-> row.trip_id, route_id |-> row.route_id, agency_id |-> row.agency_id,
      agency_name |-> a.agency_name] :
        <<row, a>> \in {ra \in rows \X Range(agency) : ra[1].agency_id = ra[2].agency_id}}

\* .merge(feed.agency[[...]], how='left', on='agency_id'): every row is kept,
\* with a null agency_name when no agency matches
MergeAgency(rows, agency) ==
    {[trip_id |-> row.trip_id, route_id |-> row.route_id, agency_id |-> row.agency_id,
      agency_name |-> a.agency_name] :
        <<row, a>> \in {ra \in rows \X Range(agency) : ra[1].agency_id = ra[2].agency_id}}
    \cup {[trip_id |-> row.trip_id, route_id |-> row.route_id, agency_id |-> row.agency_id,
           agency_name |-> null] :
            row \in {r \in rows : \A a \in Range(agency) : a.agency_id # r.agency_id}}

\* .merge(feed.stop_times).merge(feed.stops[[...]]): inner on trip_id, then
\* inner on stop_id
MergeStops(rows, stop_times, stops) ==
    {[trip_id |-> rss[1].trip_id, route_id |-> rss[1].route_id,
      agency_id |-> rss[1].agency_id, agency_name |-> rss[1].agency_name,
      stop_id |-> rss[2].stop_id, stop_sequence |-> rss[2].stop_sequence,
      stop_code |-> rss[3].stop_code] :
        rss \in {x \in rows \X Range(stop_times) \X Range(stops) :
                    /\ x[1].trip_id = x[2].trip_id
                    /\ x[2].stop_id = x[3].stop_id}}

\* the zone_name of a stop_code in zones, null when zones has no row for it
ZoneOf(stop_code, zones) ==
    IF \E z \in Range(zones) : z.stop_code = stop_code
    THEN (CHOOSE z \in Range(zones) : z.stop_code = stop_code).zone_name
    ELSE null

\* .merge(zones, how='left'): every row is kept, with its zone_name or null
MergeZones(rows, zones) ==
    {[trip_id |-> row.trip_id, route_id |-> row.route_id, agency_id |-> row.agency_id,
      agency_name |-> row.agency_name, stop_id |-> row.stop_id,
      stop_sequence |-> row.stop_sequence, stop_code |-> row.stop_code,
      zone_name |-> ZoneOf(row.stop_code, zones)] : row \in rows}

RECURSIVE sort_values(_)
\* .sort_values(['trip_id', 'stop_sequence'])
sort_values(rows) ==
    IF rows = {} THEN <<>>
    ELSE LET first == CHOOSE r \in rows : \A o \in rows :
                          \/ r.trip_id < o.trip_id
                          \/ r.trip_id = o.trip_id /\ r.stop_sequence <= o.stop_sequence
         IN  <<first>> \o sort_values(rows \ {first})

\* the threshold of is_loop, in meters
LOOP_DISTANCE == 400

\* geometry_by_stop[a].distance(geometry_by_stop[b]): the stops lie on a line
distance(geometry_by_stop, a, b) ==
    IF geometry_by_stop[a] >= geometry_by_stop[b]
    THEN geometry_by_stop[a] - geometry_by_stop[b]
    ELSE geometry_by_stop[b] - geometry_by_stop[a]

\* a test that takes the threshold itself for a loop
IsLoopInclusive(dist) == IF dist <= LOOP_DISTANCE THEN 1 ELSE 0

\* int(dist < 400)
IsLoop(dist) == IF dist < LOOP_DISTANCE THEN 1 ELSE 0

\* my_agg(group): the row of one trip, from its rows of f in their order
my_agg(rows, geometry_by_stop) ==
    LET start_stop_id == rows[1].stop_id
        end_stop_id == rows[Len(rows)].stop_id
    IN  [trip_id |-> rows[1].trip_id,
         route_id |-> rows[1].route_id,
         agency_id |-> rows[1].agency_id,
         agency_name |-> rows[1].agency_name,
         num_stops |-> Len(rows),
         start_stop_id |-> start_stop_id,
         end_stop_id |-> end_stop_id,
         start_zone |-> rows[1].zone_name,
         end_zone |-> rows[Len(rows)].zone_name,
         is_loop |-> IsLoop(distance(geometry_by_stop, start_stop_id, end_stop_id))]

\* lines 102-110: f, the merged rows in the order of trip_id and stop_sequence
MergeTables ==
    /\ pc = "trip_merge"
    /\ merged' = sort_values(
                    MergeZones(
                        MergeStops(
                            MergeAgency(MergeRoutes(feed.trips, feed.routes), feed.agency),
                            feed.stop_times, feed.stops),
                        feed.zones))
    /\ pc' = "trip_agg"
    /\ UNCHANGED <<feed, h, group, route_d>>
    /\ UNCHANGED <<retry_vars, world_vars, hist_vars>>
    /\ UNCHANGED <<ffill_dict, file_dates_dict, file_i, date_i, downloaded, d_downloaded,
                   ts, bad_zips, run_failed>>

\* lines 117-162: h = f.groupby('trip_id').apply(my_agg).reset_index(), one
\* row for every trip_id of f, in ascending order.  When f has no rows,
\* apply() never calls my_agg and the frame it returns depends on the pandas
\* version: the columns that lines 157-161 read may be there or not, so the
\* function returns an empty h or raises.
AggregateTrips ==
    /\ pc = "trip_agg"
    /\ LET ids == SetToSortedSeq({merged[i].trip_id : i \in 1..Len(merged)})
       IN  h' = [k \in 1..Len(ids) |->
                    my_agg(SelectSeq(merged, LAMBDA row : row.trip_id = ids[k]),
                           feed.geometry_by_stop)]
    /\ \E raised \in (IF merged = <<>> THEN BOOLEAN ELSE {FALSE}) :
          pc' = IF raised THEN "trip_raised" ELSE "trip_done"
    /\ UNCHANGED <<feed, merged, group, route_d>>
    /\ UNCHANGED <<retry_vars, world_vars, hist_vars>>
    /\ UNCHANGED <<ffill_dict, file_dates_dict, file_i, date_i, downloaded, d_downloaded,
                   ts, bad_zips, run_failed>>

\* the feeds: trip 1 on route 1, trip 2 on route 1 or on a route that
\* feed.routes does not have; route 1 with an agency of feed.agency or with
\* none; stops 1, 2 and 3 on a line, stop 2 just less than or exactly the
\* loop distance from stop 1, stop 3 without a zone; trip 1 with up to
\* MaxStops stop times at these stops or at a stop that feed.stops does not
\* have (stop 9), stored in the order of stop_sequence or against it; trip 2
\* with one stop time or none
MaxStops == 3
TripStops == {1, 2, 3, 9}
StopLists == UNION {[1..n -> TripStops] : n \in 0..MaxStops}
StopTimes(trip_id, stop_list, backwards) ==
    [i \in 1..Len(stop_list) |->
        LET seq == IF backwards THEN Len(stop_list) + 1 - i ELSE i
        IN  [trip_id |-> trip_id, stop_id |-> stop_list[seq], stop_sequence |-> seq]]
Feeds ==
    {[trips |-> <<[trip_id |-> 1, route_id |-> 1], [trip_id |-> 2, route_id |-> route_2]>>,
      routes |-> <<[route_id |-> 1, agency_id |-> agency_1]>>,
      agency |-> <<[agency_id |-> 1, agency_name |-> "agency 1"]>>,
      stop_times |-> StopTimes(1, stops_1, backwards) \o StopTimes(2, stops_2, FALSE),
      stops |-> <<[stop_id |-> 1, stop_code |-> 1], [stop_id |-> 2, stop_code |-> 2],
                  [stop_id |-> 3, stop_code |-> 3]>>,
      zones |-> <<[stop_code |-> 1, zone_name |-> "zone 1"],
                  [stop_code |-> 2, zone_name |-> "zone 2"]>>,
      geometry_by_stop |-> <<0, x_2, 2 * LOOP_DISTANCE>>] :
        route_2 \in {1, 2}, agency_1 \in {1, 2}, stops_1 \in StopLists,
        stops_2 \in {<<>>, <<1>>, <<9>>}, backwards \in BOOLEAN,
        x_2 \in {LOOP_DISTANCE - 1, LOOP_DISTANCE}}

InitTrip ==
    /\ RetryIdle
    /\ FramesIdle
    /\ WorldIdle
    /\ feed \in Feeds
    /\ merged = <<>>
    /\ h = <<>>
    /\ group = <<>>
    /\ route_d = <<>>
    /\ pc = "trip_merge"

NextTrip == MergeTables \/ AggregateTrips

SpecTrip == InitTrip /\ [][NextTrip]_vars

\* the trip's route is in feed.routes
HasRoute(trip) == \E r \in Range(feed.routes) : r.route_id = trip.route_id
\* the stop times of the trip
StopTimeRows(trip) ==
    {k \in 1..Len(feed.stop_times) : feed.stop_times[k].trip_id = trip.trip_id}
\* the stop times of the trip whose stop is in feed.stops
JoinedRows(trip) ==
    {k \in StopTimeRows(trip) :
        \E stop \in Range(feed.stops) : stop.stop_id = feed.stop_times[k].stop_id}
\* the rows of h of the trip
RowsOf(trip) == {i \in 1..Len(h) : h[i].trip_id = trip.trip_id}

\* C19: Trip Rollup.  A trip whose route is in the routes table and that has
\* a stop time whose stop is in the stops table has exactly one row in the
\* output, whether or not its agency or a zone is missing, and its num_stops
\* is the number of its stop times that have a stop; a trip without a route
\* in the routes table or without stop times has no row; every row is the
\* row of a trip of the feed.
C19_TripRollup ==
    pc \in {"trip_done", "trip_raised"} =>
        /\ \A trip \in Range(feed.trips) :
              IF HasRoute(trip) /\ JoinedRows(trip) # {}
              THEN /\ Cardinality(RowsOf(trip)) = 1
                   /\ \A i \in RowsOf(trip) : h[i].num_stops = Cardinality(JoinedRows(trip))
              ELSE RowsOf(trip) = {}
        /\ \A trip \in Range(feed.trips) :
              (~HasRoute(trip) \/ StopTimeRows(trip) = {}) => RowsOf(trip) = {}
        /\ \A i \in 1..Len(h) : \E trip \in Range(feed.trips) : RowsOf(trip) = {i}

\* trip 1 has a row though its agency is missing and its last stop has no
\* zone, with two stops of its three stop times; trip 2, with a stop time but
\* on a route that is not in the table, has none
C19_Witness ==
    /\ pc = "trip_done"
    /\ Len(h) = 1
    /\ h[1].trip_id = 1 /\ h[1].num_stops = 2
    /\ h[1].agency_name = null /\ h[1].end_zone = null
    /\ Cardinality(StopTimeRows(feed.trips[1])) = 3
    /\ ~HasRoute(feed.trips[2]) /\ JoinedRows(feed.trips[2]) # {}

\* the stop time of the trip that comes first by stop_sequence, of those that
\* have a stop
FirstRow(trip) ==
    CHOOSE k \in JoinedRows(trip) : \A o \in JoinedRows(trip) :
        feed.stop_times[k].stop_sequence <= feed.stop_times[o].stop_sequence
\* the one that comes last
LastRow(trip) ==
    CHOOSE k \in JoinedRows(trip) : \A o \in JoinedRows(trip) :
        feed.stop_times[k].stop_sequence >= feed.stop_times[o].stop_sequence
\* the distance between the first stop and the last stop of the trip
EndsApart(trip) ==
    LET a == feed.geometry_by_stop[feed.stop_times[FirstRow(trip)].stop_id]
        b == feed.geometry_by_stop[feed.stop_times[LastRow(trip)].stop_id]
    IN  IF a >= b THEN a - b ELSE b - a

\* C20: Loop detection.  The is_loop of a row is 1 exactly when the first
\* stop and the last stop of the trip, by stop sequence, are strictly less
\* than 400 meters apart, and 0 otherwise: at exactly 400 it is 0.
C20_LoopDetection ==
    pc = "trip_done" =>
        \A trip \in Range(feed.trips) : \A i \in RowsOf(trip) :
            /\ h[i].start_stop_id = feed.stop_times[FirstRow(trip)].stop_id
            /\ h[i].end_stop_id = feed.stop_times[LastRow(trip)].stop_id
            /\ h[i].is_loop \in {0, 1}
            /\ h[i].is_loop = 1 <=> EndsApart(trip) < 400
            /\ EndsApart(trip) = 400 => h[i].is_loop = 0

\* a trip whose stop times are stored against their order and whose ends are
\* exactly 400 meters apart is no loop, next to a trip that starts and ends
\* at one stop and is a loop
C20_Witness ==
    /\ pc = "trip_done"
    /\ Len(h) = 2
    /\ feed.stop_times[1].stop_sequence = 3
    /\ h[1].start_stop_id # h[1].end_stop_id
    /\ EndsApart(feed.trips[1]) = 400 /\ h[1].is_loop = 0
    /\ EndsApart(feed.trips[2]) = 0 /\ h[2].is_loop = 1

-----------------------------------------------------------------------------
(* Empty input: a trip stats table without rows, a bucket without archives *)

\* buckets that hold no dated archive
EmptyBuckets == {{}, {<<1, "txt">>}}

\* the trip stats tables: the empty one, and tables of one trip
EmptyOrNot == {<<>>} \cup [1..1 -> SweepTrips]

InitEmpty ==
    \/ /\ RetryIdle
       /\ FramesIdle
       /\ WorldIdle
       /\ feed = <<>>
       /\ merged = <<>>
       /\ h \in EmptyOrNot
       /\ group = <<>>
       /\ route_d = <<>>
       /\ pc = "route_apply"
    \/ /\ RetryIdle
       /\ FramesIdle
       /\ StatsIdle
       /\ pc = "idle"
       /\ bucket \in EmptyBuckets
       /\ forward_fill \in BOOLEAN
       /\ future_days \in (IF forward_fill THEN SchedFutureDays ELSE {0})
       /\ delete_downloaded_gtfs_zips = FALSE
       /\ archive \in SchedArchives
       /\ gtfs_folder = <<>>
       /\ output_folder \in OutputFolders
       /\ start_output = output_folder
       /\ start_gtfs = gtfs_folder

NextEmpty == ApplyRouteStats \/ StartRun

SpecEmpty == InitEmpty /\ [][NextEmpty]_vars

\* C21 as stated: the route rollup of an empty trip stats table raises no
\* exception, and the scheduler of a bucket without a valid snapshot raises
\* no exception and returns an empty work plan.
C21_EmptyInput ==
    /\ (pc \in {"route_raised", "route_headways"} /\ h = <<>>) => pc # "route_raised"
    /\ (pc \notin {"idle", "route_apply", "route_raised", "route_headways"}
        /\ get_bucket_valid_files(bucket) = <<>>) =>
            /\ pc # "except"
            /\ file_dates_dict = <<>>

-----------------------------------------------------------------------------
(* The wrapped call that succeeds, and the one that fails for good at once *)

\* the position in r_log of the i-th event of a kind
NthPos(kind, i) ==
    CHOOSE p \in 1..Len(r_log) :
        /\ r_log[p].ev = kind
        /\ Cardinality({q \in 1..p : r_log[q].ev = kind}) = i

\* C22: Retry Executor, success path.  When func first succeeds on its call
\* k, with n delays: k is between 1 and n+1, the calls before it all failed
\* with a retryable exception, the wrapper has returned the value that call
\* returned as its last act, with no call after it, and it has slept exactly
\* k-1 times, for the first k-1 delays in their order, every sleep after the
\* failed call it follows and before the next call.
C22_SuccessPath ==
    (pc = "wrapped" /\ r_pc = "returned") =>
        LET k == Len(Calls)
        IN  /\ 1 <= k /\ k <= Len(r_delays) + 1
            /\ CallProblems[k] = NoExc
            /\ \A i \in 1..(k - 1) : CallProblems[i] \in Retryable
            /\ r_log[Len(r_log)] = ReturnEv(Calls[k].list[1])
            /\ NthPos("call", k) = Len(r_log) - 1
            /\ Len(SleepEvs) = k - 1
            /\ \A i \in 1..(k - 1) :
                  /\ SleepEvs[i] = SleepEv(r_delays[i])
                  /\ NthPos("call", i) < NthPos("sleep", i)
                  /\ NthPos("sleep", i) < NthPos("call", i + 1)

\* the third call succeeds, after sleeps of 0 and 1 seconds, and returns the
\* second of the values
C22_Witness ==
    /\ pc = "wrapped" /\ r_pc = "returned"
    /\ Len(r_delays) = 3
    /\ CallProblems = <<"E1", "E2", NoExc>>
    /\ [i \in 1..Len(SleepEvs) |-> SleepEvs[i].delay] = <<0, 1>>
    /\ r_log[Len(r_log)] = ReturnEv("also ok")

\* the calls of func that raised an exception the except clause does not catch
FatalCalls == {i \in 1..Len(Calls) : Calls[i].problem \in NonRetryable}

\* C29: Retry Executor, non-retryable failure.  When a call of func raises an
\* exception that is not of the decorator's exception class, the wrapped call
\* has raised that exception and the failed call was its last act: no call,
\* no sleep and no report comes after it, the exception is not among the
\* problems recorded, and the reports and sleeps made are those of the
\* failures before it.
C29_NonRetryable ==
    (pc = "wrapped" /\ FatalCalls # {}) =>
        /\ FatalCalls = {Len(Calls)}
        /\ r_pc = "raised"
        /\ r_exc = Calls[Len(Calls)].problem
        /\ r_log[Len(r_log)] = Calls[Len(Calls)]
        /\ \A i \in 1..Len(problems) : problems[i] \notin NonRetryable
        /\ Len(ReportEvs) = Len(Calls) - 1
        /\ Len(SleepEvs) = Len(Calls) - 1
        /\ \A i \in 1..Len(ReportEvs) :
              /\ ReportEvs[i].ev = "report failed"
              /\ ReportEvs[i].problem = CallProblems[i]

\* the second call fails for good while delays are left
C29_Witness ==
    /\ pc = "wrapped" /\ r_pc = "raised"
    /\ Len(r_delays) = 3
    /\ CallProblems = <<"E1", "Fatal">>
    /\ Len(ReportEvs) = 1 /\ Len(SleepEvs) = 1

-----------------------------------------------------------------------------
(* The gap of the forward fill *)

\* no later snapshot lies within `gap` days after the snapshot
NotSuperseded(sn, gap) == \A later \in Snapshots : later <= sn \/ later > sn + gap

\* C23 as stated: with the forward fill configured to G days (the
\* future_days of get_forward_fill_dict, the one setting of the fill), a
\* snapshot that no later snapshot supersedes within G days is assigned
\* exactly the days from its own through its own plus G.
C23_ConfiguredGap ==
    (pc # "idle" /\ forward_fill) =>
        \A sn \in Snapshots :
            NotSuperseded(sn, future_days) =>
                DictGet(ffill_dict, ZipName(sn)) = [i \in 1..(future_days + 1) |-> sn + i - 1]

-----------------------------------------------------------------------------
(* The active trips at the earliest instant *)

\* the trips of the group that start at the earliest instant
StartAtFirst == {k \in 1..Len(group) : group[k].start_time = SetMin(Instants)}

\* C24 as stated: the count at the earliest instant of the series is the
\* number of trips that start at that instant, those that also end at it
\* included.
C24_CountsEveryStart ==
    pc = "route_done" =>
        /\ route_d.active_trips[1].time = SetMin(Instants)
        /\ route_d.active_trips[1].count = Cardinality(StartAtFirst)

\* C24, amended: the count at the earliest instant of the series is the
\* number of trips that start at that instant and end later; a trip that
\* starts and ends at that instant is not counted.
C24_CountsStartsThatLast ==
    pc = "route_done" =>
        /\ route_d.active_trips[1].time = SetMin(Instants)
        /\ route_d.active_trips[1].count =
              Cardinality({k \in StartAtFirst : group[k].end_time > group[k].start_time})

\* of three trips that start at the earliest instant one ends at it too
C24_Witness ==
    /\ pc = "route_done"
    /\ Cardinality(StartAtFirst) = 3
    /\ Cardinality({k \in StartAtFirst : group[k].end_time = group[k].start_time}) = 1
    /\ route_d.active_trips[1].count = 2

-----------------------------------------------------------------------------
(* The two artifacts of a date, over one run and over several *)

\* C25: Artifact ordering.  After any number of runs, whether they ended or
\* were cut short by an exception, every date that has its route stats file
\* in the output folder has its trip stats file there too.  (It holds of the
\* empty folder and of every folder a run starts from here; the archived
\* dates have both files.)
C25_ArtifactOrdering ==
    \A n \in DOMAIN output_folder :
        n[2] = "route_stats" => <<n[1], "trip_stats">> \in DOMAIN output_folder

\* from an empty folder: a first run was cut short between the two writes of
\* a date, a second run wrote the route stats of that date from the trip
\* stats it found and was cut short between the two writes of another date
C25_Witness ==
    /\ archive = {} /\ runs = 2 /\ pc = "done" /\ run_failed
    /\ \E d \in Watched :
          /\ Exists(output_folder, <<d, "route_stats">>)
          /\ output_folder[<<d, "route_stats">>].written_in = 2
          /\ output_folder[<<d, "trip_stats">>].written_in = 1
    /\ \E d \in Watched :
          /\ Exists(output_folder, <<d, "trip_stats">>)
          /\ ~Exists(output_folder, <<d, "route_stats">>)

\* a date for which the scheduler has a snapshot: the own date of an archive,
\* or with the forward fill any day of its period
Applicable(d) == IF forward_fill THEN d \in FillPeriod ELSE d \in Snapshots

\* C26: Completion.  When a run has returned without an exception, every
\* date of every work list has its trip stats and its route stats in the
\* output folder.  A date the scheduler has a snapshot for and whose trip
\* stats the run found without its route stats is in a work list, and when
\* such a run has returned its route stats are there, made from the trip
\* stats found.
C26_Completion ==
    /\ (pc = "done" /\ ~run_failed) =>
          \A w \in WorkItems :
              /\ Exists(output_folder, <<w[2], "trip_stats">>)
              /\ Exists(output_folder, <<w[2], "route_stats">>)
    /\ (pc # "idle" /\ ~ListingRaises(start_output)) =>
          \A d \in Watched :
              (/\ Applicable(d)
               /\ Exists(start_output, <<d, "trip_stats">>)
               /\ ~Exists(start_output, <<d, "route_stats">>)) =>
                  /\ \E w \in WorkItems : w[2] = d
                  /\ (pc = "done" /\ ~run_failed) =>
                        /\ Exists(output_folder, <<d, "route_stats">>)
                        /\ output_folder[<<d, "route_stats">>].of =
                              <<start_output[<<d, "trip_stats">>]>>
                        /\ output_folder[<<d, "route_stats">>].written_in = runs

\* a run has returned without an exception after three dates: it found the
\* trip stats of one of them and made those of the others
C26_Witness ==
    /\ pc = "done" /\ ~run_failed
    /\ Cardinality(WorkItems) = 3
    /\ \E d \in Watched :
          /\ Exists(start_output, <<d, "trip_stats">>)
          /\ ~Exists(start_output, <<d, "route_stats">>)
          /\ output_folder[<<d, "route_stats">>].written_in = runs
    /\ Cardinality({d \in Watched : /\ Exists(output_folder, <<d, "trip_stats">>)
                                    /\ output_folder[<<d, "trip_stats">>].written_in = runs}) = 2

\* the events of the log that name a file
FileEvs(file) == {i \in 1..Len(log) : log[i].file = file}

\* C27: No needless retrieval.  A run does nothing (no retrieval, nothing
\* else) for a file whose work list is empty; and a work item that finds the
\* trip stats of its date reads them and makes no retrieval and no read of
\* the local snapshot, whether or not the snapshot is in the local folder.
C27_NoNeedlessRetrieval ==
    /\ \A i \in 1..Len(file_dates_dict) :
          file_dates_dict[i][2] = <<>> => FileEvs(file_dates_dict[i][1]) = {}
    /\ \A e \in Range(log) : e.op = "fetch" => DictGet(file_dates_dict, e.file) # <<>>
    /\ \A w \in WorkItems :
          (Did("begin", w[1], w[2]) /\ Exists(start_output, <<w[2], "trip_stats">>)) =>
              /\ Did("read_trip", w[1], w[2])
              /\ ~Did("fetch", w[1], w[2])
              /\ ~Did("window", w[1], w[2])

\* a run has ended an item whose trip stats it found and whose snapshot is
\* not in the local folder, without any retrieval, and has done nothing for a
\* file of the plan whose work list is empty
C27_Witness ==
    /\ pc = "done" /\ ~run_failed
    /\ \E i \in 1..Len(file_dates_dict) : file_dates_dict[i][2] = <<>>
    /\ \E w \in WorkItems :
          /\ Exists(start_output, <<w[2], "trip_stats">>)
          /\ Did("end", w[1], w[2])
          /\ ~Exists(start_gtfs, w[1]) /\ ~Exists(gtfs_folder, w[1])
    /\ \A e \in Range(log) : e.op # "fetch"

\* the run has issued a retrieval of the file
Fetched(file) == \E e \in Range(log) : e.op = "fetch" /\ e.file = file

\* C28: Snapshot deletion safety.  Without the delete flag a run removes no
\* file of the local folder; with or without it, a file that was in the local
\* folder when the run started and that the run has not retrieved is still
\* there, unchanged; a file is removed only with the flag set and after the
\* run has retrieved it.
C28_DeletionSafety ==
    /\ ~delete_downloaded_gtfs_zips =>
          /\ \A e \in Range(log) : e.op # "remove"
          /\ DOMAIN start_gtfs \subseteq DOMAIN gtfs_folder
    /\ \A file \in DOMAIN start_gtfs :
          ~Fetched(file) =>
              /\ Exists(gtfs_folder, file)
              /\ gtfs_folder[file] = start_gtfs[file]
    /\ \A i \in 1..Len(log) :
          log[i].op = "remove" =>
              /\ delete_downloaded_gtfs_zips
              /\ \E j \in 1..(i - 1) : log[j].op = "fetch" /\ log[j].file = log[i].file

\* with the flag set, a run has kept the file it found in the local folder
\* and removed the one it retrieved
C28_Witness ==
    /\ pc = "done" /\ ~run_failed /\ delete_downloaded_gtfs_zips
    /\ \E file \in DOMAIN start_gtfs :
          /\ Did("keep", file, NaT)
          /\ Exists(gtfs_folder, file)
    /\ \E e \in Range(log) : e.op = "remove" /\ ~Exists(gtfs_folder, e.file)

=============================================================================
